---- MODULE Spec2Model ----
(***************************************************************************)
(* Model of the bikemap.bcn client: the playback clock (the zustand        *)
(* animation store and the animation loop of BikeMap), the station-status  *)
(* load path of BikeMap, the DuckDB data-file registration, and the trip   *)
(* batch service (TripDataService).                                        *)
(*                                                                         *)
(* Dates are milliseconds relative to DEFAULT_ANIMATION_START_DATE, so     *)
(* that every number fits TLC's integers.                                  *)
(*                                                                         *)
(* Store actions are invoked from discrete UI events (clicks, key          *)
(* presses): React commits the re-render and re-runs the effects whose     *)
(* dependencies changed before the next animation frame or promise         *)
(* callback runs, so an action of the model is the store update together   *)
(* with the effects it re-runs.                                            *)
(***************************************************************************)
EXTENDS Integers, Sequences, FiniteSets, TLC

\* ------------------------------------------------------------------ bounds
MaxNow == 200            \* wall-clock horizon of the animation frames (ms)
MaxSeeks == 2            \* date selections in one run
MaxQueries == 3          \* station-status queries issued in one run
MaxSimTimeMs == 15000    \* simulated time reached by direct advanceSimTime calls
MaxLegacyTime == 30      \* the same for the earlier store (s)
MaxTripId == 7           \* trips the server knows, identifiers 1..MaxTripId
MaxBatchId == 2          \* batch indices 0..MaxBatchId
MaxCalls == 3            \* registerDataFile calls followed
MaxChunkCalls == 2       \* requestChunk / clearBatch calls after init
MaxDuckNow == 5000       \* the DuckDB service's clock, ms
MaxInitCalls == 3        \* DuckDBService.init() calls in one run
MaxTerminates == 1       \* DuckDBService.terminate() calls in one run
MaxLifeCalls == 1        \* registerDataFile calls followed across terminate()
WORKER_COUNT == 3        \* workers of the pool (10 in the script)
MaxFiles == 3            \* input files of one processFilesWithWorkers run
MaxGets == 3             \* GET requests to the caching proxies in one run
MaxProxyNow == 2000000   \* the proxies' clock, ms
MaxLoads == 3            \* load() calls on the stations store in one run

\* ------------------------------------------------------- program constants
REAL_MAX_FRAME_DELTA_MS == 100
DEFAULT_SPEEDUP == 150
STATUS_REFETCH_SIM_MS == 5 * 60 * 1000
DEFAULT_ANIMATION_START_DATE == 0
CHUNK_SIZE_SECONDS == 60
BATCH_SIZE_SECONDS == 60 * 60
CHUNKS_PER_BATCH == BATCH_SIZE_SECONDS \div CHUNK_SIZE_SECONDS
REFETCH_INTERVAL_MS == 5 * 1000

\* ------------------------------------------------------------------ inputs
\* null, and the empty array, of a field that otherwise holds <<value>>
Null == <<>>
SPEED_LEVELS == <<DEFAULT_SPEEDUP, 600>>
SpeedInputs == {DEFAULT_SPEEDUP, 300}
DateInputs == {0, 86400000}
FrameGaps == {50, 150}
SimTimeInputs == {0, 600000}
AdvanceInputs == {7500}
LegacyTimeInputs == {0, 30}
LegacyAdvanceInputs == {15}
WindowStartInputs == {0, 1000}
\* Requested dates as <<year, month>> (month from 0, as Date.getMonth), and
\* the real-world month the service runs in.
DuckDateInputs == {<<2025, 0>>, <<2026, 10>>}
nowReal == <<2026, 10>>
ClockSteps == {REFETCH_INTERVAL_MS}
\* The two proxy routes, by the file each is in; the upstream's answers; and
\* the time that has passed at a proxy event since the one before (ms).
Routes == {"part_001", "part_002"}
UpstreamOutcomes == {"ok", "notOk", "networkError"}
ProxyElapsed == {25000, 900000}
\* What /stations.json may hold (station names), what its fetch may end in,
\* and the names looked up.
StationFiles == {<<"A", "B">>, <<"B", "C">>}
StationNames == {"A", "B", "C"}
\* The components that call the store's load().
LoadCallers == {"BikeMap", "Ebike"}
CsvOutcomes == {"ok", "notFound", "error"}
\* Chunk indices: first and last chunk of batch 0, first of batch 1, last of
\* batch 2.
ChunkInputs == {0, 59, 60, 179}
\* The trips batch 0 holds when init has returned.
LoadedInputs == {{}, {1, 2}}
\* Trips as <<start, duration>> in seconds from the window start: the
\* scenario's trip, one long enough to be moving at 50 and at 500, one that
\* ends when it starts.
TripShapes == {<<100, 60>>, <<40, 500>>, <<100, 0>>}
\* Routes: one with a repeated point, a straight two-point path, one that
\* turns back.
PathInputs == {<<0, 60, 60, 180>>, <<0, 100>>, <<0, 50, 20>>}
FadeInputs == {0, 5}
BatchWindowStarts == {0, 1000}
\* Simulated times: the scenario's, the phase boundaries, the seek from 500
\* back to 50.
TimeInputs == {50, 90, 95, 100, 102, 120, 130, 160, 163, 165, 166, 500}

\* Trips offered to filterTrips: two that can be drawn, one that starts and
\* ends at the same station, and one for each coordinate that may be null.
\* A coordinate is <<degrees>> or Null.
TripInputs ==
  { [id |-> 1, startLat |-> <<41>>, startLng |-> <<2>>, endLat |-> <<42>>,
     endLng |-> <<3>>, startStationName |-> "A", endStationName |-> "B"],
    [id |-> 2, startLat |-> <<42>>, startLng |-> <<3>>, endLat |-> <<41>>,
     endLng |-> <<2>>, startStationName |-> "B", endStationName |-> "A"],
    [id |-> 3, startLat |-> <<41>>, startLng |-> <<2>>, endLat |-> <<41>>,
     endLng |-> <<2>>, startStationName |-> "A", endStationName |-> "A"],
    [id |-> 4, startLat |-> <<>>, startLng |-> <<2>>, endLat |-> <<42>>,
     endLng |-> <<3>>, startStationName |-> "A", endStationName |-> "B"],
    [id |-> 5, startLat |-> <<41>>, startLng |-> <<>>, endLat |-> <<42>>,
     endLng |-> <<3>>, startStationName |-> "A", endStationName |-> "B"],
    [id |-> 6, startLat |-> <<41>>, startLng |-> <<2>>, endLat |-> <<>>,
     endLng |-> <<3>>, startStationName |-> "A", endStationName |-> "B"],
    [id |-> 7, startLat |-> <<41>>, startLng |-> <<2>>, endLat |-> <<42>>,
     endLng |-> <<>>, startStationName |-> "A", endStationName |-> "B"] }
MaxTrips == 3
\* Bikes and free docks of a station.
MaxBikes == 10
\* Distances in hundredths of a metre: 0, 0.49, 0.5, 500, 999.49, 999.5,
\* 999.99, 1000, 1049, 1050, 1500 metres.
DistanceInputs ==
  {0, 49, 50, 50000, 99949, 99950, 99999, 100000, 104900, 105000, 150000}
\* Rides as <<distanceMeters, endedAt - startedAt in seconds>>.
RideInputs == {<<15000, 3600>>, <<1000, 600>>, <<0, 60>>}

Min(a, b) == IF a < b THEN a ELSE b
Max(a, b) == IF a > b THEN a ELSE b
Abs(a) == IF a < 0 THEN 0 - a ELSE a

VARIABLES
  \* lib/stores/animation-store.ts
  speedup, animationStartDate, isPlaying, simCurrentTimeMs, pendingAutoPlay,
  dateSelectionKey,
  \* BikeMap component
  mounted, lastTimestampRef, lastFetchSimTimeRef, now, stationStatuses,
  isLoadingTrips, loadError, queries, nIssued,
  \* lib/animation-store.ts (the earlier store; currentTime is in seconds)
  legacySpeedup, legacyAnimationStartDate, legacyIsPlaying, legacyCurrentTime,
  \* history: the store action called last, <<store, action, argument>>
  lastOp,
  \* TripDataService: config, and the one fetchBatch call being followed
  windowStartMs, configStartDate, fbPc, fbBatchId, fbData, fbOverlap,
  fbResult, fbQueries,
  \* TripDataService.init, the processor client's channel and the worker
  tdsPc, tdsTripMap, toWorker, toMain, wire, wInit, wBatches,
  \* DuckDBService: its fields, the database's tables, the clock, the
  \* registerDataFile calls and the network fetches they issued
  registeredFiles, missingFiles, lastFetchTime, currentFetchPromise,
  dbTables, duckNow, regPc, csvFetches, jsonFetches,
  \* the frame interpolator: the compiled trip it updates in place, the
  \* simulated time of the last call and of the call before it
  deckTrip, simT, prevT,
  \* the library functions: the function called last, its argument, its result
  libFn, libArg, libOut,
  \* DuckDBService's life cycle: initPromise (the run it is the promise of),
  \* the runs of _initialize, this.db and this.conn (the database instance
  \* each belongs to), the instances created, and the terminate() calls made;
  \* initCalls is history: the run each init() call was given
  initPromise, initRuns, initCalls, db, conn, instances, nTerminates,
  \* processFilesWithWorkers: its locals, the workers (what each is doing and
  \* the files posted to it and not answered), the chain of then-callbacks
  \* behind writePromise, the chain lengths at which a resolving callback
  \* was attached, and whether the returned promise has resolved;
  \* posts is history: every postMessage made, <<worker, file>>
  filePaths, fileQueue, activeWorkers, processedFiles, totalTrips,
  totalSkipped, workers, posts, writeChain, resolveAt, poolResolved,
  \* the caching proxies: cachedData and lastFetchTime of each route's
  \* module, the clock, and every GET received (its route, when it arrived,
  \* whether it awaits the upstream, how and when the upstream answered, the
  \* rank of that answer among the answers, and the response returned)
  proxyCachedData, proxyLastFetchTime, proxyNow, gets,
  \* lib/stores/stations-store.ts: the store's fields (a station is its
  \* name, the map is its key set), the load() calls made (who called and
  \* where the call is),
  \* the fetches of /stations.json issued (the call each belongs to and its
  \* state), and the last getStation call, <<name, "found" or "threw">>
  stations, stationByName, isLoading, loadCalls, stationFetches, lastLookup

storeVars == <<speedup, animationStartDate, isPlaying, simCurrentTimeMs,
               pendingAutoPlay, dateSelectionKey>>
mapVars == <<mounted, lastTimestampRef, lastFetchSimTimeRef, now,
             stationStatuses, isLoadingTrips, loadError, queries, nIssued>>
legacyVars == <<legacySpeedup, legacyAnimationStartDate, legacyIsPlaying,
                legacyCurrentTime>>
fetchVars == <<windowStartMs, configStartDate, fbPc, fbBatchId, fbData,
               fbOverlap, fbResult, fbQueries>>
initVars == <<tdsPc, tdsTripMap, toWorker, toMain, wire, wInit, wBatches>>
interpVars == <<deckTrip, simT, prevT>>
pureVars == <<libFn, libArg, libOut>>
lifeVars == <<initPromise, initRuns, initCalls, db, conn, instances,
              nTerminates>>
poolVars == <<filePaths, fileQueue, activeWorkers, processedFiles, totalTrips,
              totalSkipped, workers, posts, writeChain, resolveAt,
              poolResolved>>
proxyVars == <<proxyCachedData, proxyLastFetchTime, proxyNow, gets>>
stationsVars == <<stations, stationByName, isLoading, loadCalls,
                  stationFetches, lastLookup>>
toolVars == <<poolVars, proxyVars, stationsVars>>
libVars == <<interpVars, pureVars, lifeVars, toolVars>>
serviceVars == <<fetchVars, initVars, libVars>>
duckVars == <<registeredFiles, missingFiles, lastFetchTime, currentFetchPromise,
              dbTables, duckNow, regPc, csvFetches, jsonFetches>>
appVars == <<storeVars, mapVars, legacyVars, lastOp, duckVars>>
uiVars == <<appVars, libVars>>
vars == <<uiVars, serviceVars>>

\* What the steps of the BikeMap component leave alone.
notMapVars == <<legacyVars, lastOp, serviceVars, duckVars>>
notDuckVars == <<storeVars, mapVars, legacyVars, lastOp, serviceVars>>
\* What the interpolator, the library functions and the life cycle of the
\* DuckDB service each leave alone.
coreVars == <<appVars, fetchVars, initVars>>
notInterpVars == <<coreVars, pureVars, lifeVars, toolVars>>
notPureVars == <<coreVars, interpVars, lifeVars, toolVars>>
notLifeVars == <<coreVars, interpVars, pureVars, toolVars>>
\* What the scripts and services outside the map page leave alone.
pageVars == <<coreVars, interpVars, pureVars, lifeVars>>
notPoolVars == <<pageVars, proxyVars, stationsVars>>
notProxyVars == <<pageVars, poolVars, stationsVars>>
notStationsVars == <<pageVars, poolVars, proxyVars>>

\* ------------------------------------------- the animation store (actions)
StoreInit ==
  /\ speedup = DEFAULT_SPEEDUP
  /\ animationStartDate = DEFAULT_ANIMATION_START_DATE
  /\ isPlaying = FALSE
  /\ simCurrentTimeMs = 0
  /\ pendingAutoPlay = TRUE
  /\ dateSelectionKey = 0

\* A speed change that resets playback, as the earlier store's does.
setSpeedup_reset(value) ==
  /\ speedup' = value
  /\ isPlaying' = FALSE
  /\ simCurrentTimeMs' = 0
  /\ UNCHANGED <<animationStartDate, pendingAutoPlay, dateSelectionKey>>

setSpeedup(value) ==
  /\ speedup' = value
  /\ UNCHANGED <<animationStartDate, isPlaying, simCurrentTimeMs,
                 pendingAutoPlay, dateSelectionKey>>

\* A date selection that leaves playback running.
setAnimationStartDate_keepsPlaying(date) ==
  /\ animationStartDate' = date
  /\ simCurrentTimeMs' = 0
  /\ dateSelectionKey' = dateSelectionKey + 1
  /\ UNCHANGED <<speedup, pendingAutoPlay, isPlaying>>

setAnimationStartDate(date) ==
  /\ animationStartDate' = date
  /\ isPlaying' = FALSE
  /\ simCurrentTimeMs' = 0
  /\ dateSelectionKey' = dateSelectionKey + 1
  /\ UNCHANGED <<speedup, pendingAutoPlay>>

\* A date selection that forgets to bump the generation tag.
setAnimationStartDateAndPlay_sameKey(date) ==
  /\ animationStartDate' = date
  /\ isPlaying' = FALSE
  /\ simCurrentTimeMs' = 0
  /\ pendingAutoPlay' = TRUE
  /\ UNCHANGED <<speedup, dateSelectionKey>>

setAnimationStartDateAndPlay(date) ==
  /\ animationStartDate' = date
  /\ isPlaying' = FALSE
  /\ simCurrentTimeMs' = 0
  /\ pendingAutoPlay' = TRUE
  /\ dateSelectionKey' = dateSelectionKey + 1
  /\ UNCHANGED speedup

clearPendingAutoPlay ==
  /\ pendingAutoPlay' = FALSE
  /\ UNCHANGED <<speedup, animationStartDate, isPlaying, simCurrentTimeMs,
                 dateSelectionKey>>

play ==
  /\ isPlaying' = TRUE
  /\ UNCHANGED <<speedup, animationStartDate, simCurrentTimeMs,
                 pendingAutoPlay, dateSelectionKey>>

pause ==
  /\ isPlaying' = FALSE
  /\ UNCHANGED <<speedup, animationStartDate, simCurrentTimeMs,
                 pendingAutoPlay, dateSelectionKey>>

setSimCurrentTimeMs(simTimeMs) ==
  /\ simCurrentTimeMs' = simTimeMs
  /\ UNCHANGED <<speedup, animationStartDate, isPlaying, pendingAutoPlay,
                 dateSelectionKey>>

advanceSimTime(deltaMs) ==
  /\ simCurrentTimeMs' = simCurrentTimeMs + deltaMs
  /\ UNCHANGED <<speedup, animationStartDate, isPlaying, pendingAutoPlay,
                 dateSelectionKey>>

resetPlayback ==
  /\ isPlaying' = FALSE
  /\ simCurrentTimeMs' = 0
  /\ UNCHANGED <<speedup, animationStartDate, pendingAutoPlay,
                 dateSelectionKey>>

\* ------------------------------------------------ BikeMap: effects and loop
\* One station-status load in flight: the initial load's promise chain
\* (Promise.all([loadStations(), duckdbService.init()]), then
\* getStationStatus(animationStartDate)) or a tick's getStationStatus.  src and
\* date are the closure of the pending promise; seq and gen are history tags
\* (the order of issue and the dateSelectionKey at issue).
Query(seq, src, date, gen) ==
  [seq |-> seq, src |-> src, date |-> date, gen |-> gen]

\* The "Initial Data Load" effect body up to its first await.
init(date, gen) ==
  /\ isLoadingTrips' = TRUE
  /\ loadError' = Null
  /\ nIssued' = nIssued + 1
  /\ queries' = queries \cup {Query(nIssued + 1, "init", date, gen)}

\* An animation loop effect that keeps the previous frame's timestamp when
\* playback stops.
AnimationLoopEffect_keeps ==
  lastTimestampRef' = lastTimestampRef

\* The "Animation Loop" effect when it (re-)runs: not playing clears the
\* previous frame's timestamp.
AnimationLoopEffect ==
  lastTimestampRef' = IF isPlaying' THEN lastTimestampRef ELSE Null

\* Component state a store update leaves alone when only the animation loop
\* effect can re-run.
Rerender ==
  /\ AnimationLoopEffect
  /\ UNCHANGED notMapVars
  /\ UNCHANGED <<mounted, lastFetchSimTimeRef, now, stationStatuses,
                 isLoadingTrips, loadError, queries, nIssued>>

\* A date selection: animationStartDate is a new Date object, so the initial
\* load effect and the animation loop effect re-run.
RerenderAfterSeek ==
  /\ AnimationLoopEffect
  /\ UNCHANGED notMapVars
  /\ init(animationStartDate', dateSelectionKey')
  /\ UNCHANGED <<mounted, lastFetchSimTimeRef, now, stationStatuses>>

MapInit ==
  /\ mounted = FALSE
  /\ lastTimestampRef = Null
  /\ lastFetchSimTimeRef = 0
  /\ now = 0
  /\ stationStatuses = Null
  /\ isLoadingTrips = FALSE
  /\ loadError = Null
  /\ queries = {}
  /\ nIssued = 0

\* First commit of BikeMap: the initial load starts, the animation loop
\* effect runs paused, and the "Initial Play" effect calls play().
Mount ==
  /\ ~mounted
  /\ mounted' = TRUE
  /\ play
  /\ init(animationStartDate, dateSelectionKey)
  /\ AnimationLoopEffect
  /\ UNCHANGED <<lastFetchSimTimeRef, now, stationStatuses>>
  /\ UNCHANGED notMapVars

\* A frame-delta cap that does not cap.
SafeDelta_uncapped(realDeltaMs) == realDeltaMs

\* "Cap delta": Math.min(realDeltaMs, REAL_MAX_FRAME_DELTA_MS).
SafeDelta(realDeltaMs) == Min(realDeltaMs, REAL_MAX_FRAME_DELTA_MS)

\* The requestAnimationFrame callback, timestamp = now + gap.
tick(gap) ==
  LET timestamp == now + gap
      realDeltaMs == timestamp - lastTimestampRef[1]
      safeDelta == SafeDelta(realDeltaMs)
      currentSimTime == simCurrentTimeMs + safeDelta * speedup
      refetch == Abs(currentSimTime - lastFetchSimTimeRef) > STATUS_REFETCH_SIM_MS
  IN
  /\ mounted /\ isPlaying
  /\ timestamp <= MaxNow
  /\ IF lastTimestampRef # Null
       THEN /\ advanceSimTime(safeDelta * speedup)
            /\ IF refetch
                 THEN /\ nIssued < MaxQueries
                      /\ lastFetchSimTimeRef' = currentSimTime
                      /\ nIssued' = nIssued + 1
                      /\ queries' = queries \cup
                           {Query(nIssued + 1, "tick",
                                  animationStartDate + currentSimTime,
                                  dateSelectionKey)}
                 ELSE UNCHANGED <<lastFetchSimTimeRef, nIssued, queries>>
       ELSE UNCHANGED <<storeVars, lastFetchSimTimeRef, nIssued, queries>>
  /\ lastTimestampRef' = <<timestamp>>
  /\ now' = timestamp
  /\ UNCHANGED <<mounted, stationStatuses, isLoadingTrips, loadError>>
  /\ UNCHANGED notMapVars

\* togglePlayPause (button and space bar).
togglePlayPause ==
  /\ mounted
  /\ IF isPlaying THEN pause ELSE play
  /\ Rerender

\* TimeDisplay.changeSpeed(direction): step along SPEED_LEVELS from the level
\* closest to the current speed.
IndexOfSpeed(s) ==
  IF \E i \in DOMAIN SPEED_LEVELS : SPEED_LEVELS[i] = s
    THEN CHOOSE i \in DOMAIN SPEED_LEVELS :
           /\ SPEED_LEVELS[i] = s
           /\ \A j \in DOMAIN SPEED_LEVELS : SPEED_LEVELS[j] = s => i <= j
    ELSE CHOOSE i \in DOMAIN SPEED_LEVELS :
           \A j \in DOMAIN SPEED_LEVELS :
             \/ Abs(SPEED_LEVELS[i] - s) < Abs(SPEED_LEVELS[j] - s)
             \/ (Abs(SPEED_LEVELS[i] - s) = Abs(SPEED_LEVELS[j] - s) /\ i <= j)

changeSpeed(direction) ==
  LET nextIndex == Max(1, Min(Len(SPEED_LEVELS), IndexOfSpeed(speedup) + direction))
  IN setSpeedup(SPEED_LEVELS[nextIndex])

ChangeSpeed(direction) ==
  /\ mounted
  /\ changeSpeed(direction)
  /\ Rerender

SetSpeedup(value) ==
  /\ mounted
  /\ setSpeedup(value)
  /\ Rerender

Seek(date) ==
  /\ mounted
  /\ dateSelectionKey < MaxSeeks
  /\ nIssued < MaxQueries
  /\ setAnimationStartDate(date)
  /\ RerenderAfterSeek

SeekAndPlay(date) ==
  /\ mounted
  /\ dateSelectionKey < MaxSeeks
  /\ nIssued < MaxQueries
  /\ setAnimationStartDateAndPlay(date)
  /\ RerenderAfterSeek

SetSimCurrentTimeMs(t) ==
  /\ mounted
  /\ setSimCurrentTimeMs(t)
  /\ Rerender

ResetPlayback ==
  /\ mounted
  /\ resetPlayback
  /\ Rerender

ClearPendingAutoPlay ==
  /\ mounted
  /\ clearPendingAutoPlay
  /\ Rerender

\* setStationStatuses(result) of a resolved getStationStatus.
ApplyStatuses(q) ==
  stationStatuses' = <<[date |-> q.date, gen |-> q.gen, seq |-> q.seq]>>

\* getStationStatus resolves (for the initial load: the whole chain did).
QueryLands(q) ==
  /\ queries' = queries \ {q}
  /\ ApplyStatuses(q)
  /\ IF q.src = "init"
       THEN isLoadingTrips' = FALSE
       ELSE UNCHANGED isLoadingTrips
  /\ UNCHANGED <<storeVars, mounted, lastTimestampRef, lastFetchSimTimeRef,
                 now, loadError, nIssued>>
  /\ UNCHANGED notMapVars

\* A catch block that records the error and leaves the loading flag set.
QueryFails_stuck(q) ==
  /\ queries' = queries \ {q}
  /\ IF q.src = "init"
       THEN loadError' = <<[gen |-> q.gen]>>
       ELSE UNCHANGED loadError
  /\ UNCHANGED <<storeVars, mounted, lastTimestampRef, lastFetchSimTimeRef,
                 now, stationStatuses, isLoadingTrips, nIssued>>
  /\ UNCHANGED notMapVars

\* The initial load's catch block (either await rejected), or the tick's
\* .catch(console.error).
QueryFails(q) ==
  /\ queries' = queries \ {q}
  /\ IF q.src = "init"
       THEN /\ loadError' = <<[gen |-> q.gen]>>
            /\ isLoadingTrips' = FALSE
       ELSE UNCHANGED <<loadError, isLoadingTrips>>
  /\ UNCHANGED <<storeVars, mounted, lastTimestampRef, lastFetchSimTimeRef,
                 now, stationStatuses, nIssued>>
  /\ UNCHANGED notMapVars


\* ------------------------------------- the earlier store (lib/animation-store)
LegacyInit ==
  /\ legacySpeedup = DEFAULT_SPEEDUP
  /\ legacyAnimationStartDate = DEFAULT_ANIMATION_START_DATE
  /\ legacyIsPlaying = FALSE
  /\ legacyCurrentTime = 0

legacy_setSpeedup(value) ==
  /\ legacySpeedup' = value
  /\ legacyIsPlaying' = FALSE
  /\ legacyCurrentTime' = 0
  /\ UNCHANGED legacyAnimationStartDate

legacy_setAnimationStartDate(date) ==
  /\ legacyAnimationStartDate' = date
  /\ legacyIsPlaying' = FALSE
  /\ legacyCurrentTime' = 0
  /\ UNCHANGED legacySpeedup

legacy_play ==
  /\ legacyIsPlaying' = TRUE
  /\ UNCHANGED <<legacySpeedup, legacyAnimationStartDate, legacyCurrentTime>>

legacy_pause ==
  /\ legacyIsPlaying' = FALSE
  /\ UNCHANGED <<legacySpeedup, legacyAnimationStartDate, legacyCurrentTime>>

legacy_setCurrentTime(time) ==
  /\ legacyCurrentTime' = time
  /\ UNCHANGED <<legacySpeedup, legacyAnimationStartDate, legacyIsPlaying>>

legacy_advanceTime(delta) ==
  /\ legacyCurrentTime' = legacyCurrentTime + delta
  /\ UNCHANGED <<legacySpeedup, legacyAnimationStartDate, legacyIsPlaying>>

legacy_resetPlayback ==
  /\ legacyIsPlaying' = FALSE
  /\ legacyCurrentTime' = 0
  /\ UNCHANGED <<legacySpeedup, legacyAnimationStartDate>>

\* --------------------------------------------- TripDataService.fetchBatch
\* A server row: the trip's identifier, its start as a Date, and (history)
\* the query that returned this object.
Row(id, query) == [id |-> id, startedAt |-> <<"Date", id>>, query |-> query]

\* What a server query can answer: the trips lo..hi in start order, possibly
\* none.
RECURSIVE Rows(_, _, _)
Rows(lo, hi, query) ==
  IF lo > hi THEN <<>> ELSE <<Row(lo, query)>> \o Rows(lo + 1, hi, query)

Answers(query) ==
  {<<>>} \cup {Rows(lo, hi, query) : lo \in 1..MaxTripId, hi \in 1..MaxTripId}

\* The answers of getRidesStartingIn and of getTripsForChunk.
WindowAnswers == Answers("window")
OverlapAnswers == Answers("overlap")

Ids(trips) == {trips[i].id : i \in DOMAIN trips}

\* A Map.set that adds a second entry for a key already present.
MapSet_append(map, trip) == Append(map, trip)

\* tripMap.set(trip.id, trip) on a Map kept as its entries in insertion
\* order: an existing key keeps its place and takes the new value.
MapSet(map, trip) ==
  IF \E i \in DOMAIN map : map[i].id = trip.id
    THEN [i \in DOMAIN map |-> IF map[i].id = trip.id THEN trip ELSE map[i]]
    ELSE Append(map, trip)

\* for (const trip of trips) tripMap.set(trip.id, trip)
RECURSIVE MapSetAll(_, _)
MapSetAll(map, trips) ==
  IF trips = <<>> THEN map
  ELSE MapSetAll(MapSet(map, Head(trips)), Tail(trips))

\* convertToRawTrips: the dates become ISO strings.
convertToRawTrips(trips) ==
  [i \in DOMAIN trips |->
     [trips[i] EXCEPT !.startedAt = <<"ISO", trips[i].startedAt[2]>>]]

\* A batch window that ends one chunk, not one batch, after its start.
batchEndMs_chunk(batchId) ==
  windowStartMs + batchId * BATCH_SIZE_SECONDS * 1000 + CHUNK_SIZE_SECONDS * 1000

batchStartMs(batchId) == windowStartMs + batchId * BATCH_SIZE_SECONDS * 1000
batchEndMs(batchId) == batchStartMs(batchId) + BATCH_SIZE_SECONDS * 1000

\* new TripDataService(config), no fetchBatch called yet.
FetchInit(config) ==
  /\ windowStartMs = config[1]
  /\ configStartDate = config[2]
  /\ fbPc = "idle"
  /\ fbBatchId = 0
  /\ fbData = <<>>
  /\ fbOverlap = <<>>
  /\ fbResult = Null
  /\ fbQueries = <<>>

\* fetchBatch(batchId) up to its first await: getRidesInWindow({from, to}).
fetchBatch(batchId) ==
  /\ fbPc' = "window"
  /\ fbBatchId' = batchId
  /\ fbData' = <<>>
  /\ fbOverlap' = <<>>
  /\ fbResult' = Null
  /\ fbQueries' = <<[query |-> "window", from |-> batchStartMs(batchId),
                     to |-> batchEndMs(batchId), outcome |-> "pending"]>>
  /\ UNCHANGED <<windowStartMs, configStartDate>>

Settle(queryLog, outcome) ==
  [queryLog EXCEPT ![Len(queryLog)].outcome = outcome]

\* getRidesInWindow resolves; batch 0 goes on to getTripsForChunk, any other
\* batch returns the converted rows.
WindowLands(data) ==
  /\ fbPc = "window"
  /\ fbData' = data
  /\ IF fbBatchId = 0
       THEN /\ fbPc' = "overlap"
            /\ fbQueries' = Append(Settle(fbQueries, "ok"),
                 [query |-> "overlap", from |-> configStartDate,
                  to |-> windowStartMs + CHUNK_SIZE_SECONDS * 1000,
                  outcome |-> "pending"])
            /\ UNCHANGED fbResult
       ELSE /\ fbPc' = "returned"
            /\ fbQueries' = Settle(fbQueries, "ok")
            /\ fbResult' = <<convertToRawTrips(data)>>
  /\ UNCHANGED <<windowStartMs, configStartDate, fbBatchId, fbOverlap>>

\* An awaited query rejects: fetchBatch has no catch, it rejects with it.
Rejects ==
  /\ fbPc' = "failed"
  /\ fbQueries' = Settle(fbQueries, "error")
  /\ UNCHANGED <<windowStartMs, configStartDate, fbBatchId, fbData,
                 fbOverlap, fbResult>>

\* A failed overlap query swallowed: the in-window rows are returned alone.
OverlapFails_partial ==
  /\ fbPc = "overlap"
  /\ fbPc' = "returned"
  /\ fbQueries' = Settle(fbQueries, "error")
  /\ fbResult' = <<convertToRawTrips(fbData)>>
  /\ UNCHANGED <<windowStartMs, configStartDate, fbBatchId, fbData, fbOverlap>>

WindowFails ==
  /\ fbPc = "window"
  /\ Rejects

OverlapFails ==
  /\ fbPc = "overlap"
  /\ Rejects

\* getTripsForChunk resolves: merge, dedupe by id, convert, return.
OverlapLands(overlapData) ==
  /\ fbPc = "overlap"
  /\ fbOverlap' = overlapData
  /\ fbPc' = "returned"
  /\ fbQueries' = Settle(fbQueries, "ok")
  /\ fbResult' = <<convertToRawTrips(MapSetAll(MapSetAll(<<>>, overlapData), fbData))>>
  /\ UNCHANGED <<windowStartMs, configStartDate, fbBatchId, fbData>>

\* The client's onBatchRequest callback: run fetchBatch for a batch, once the
\* call followed before has settled.
OnBatchRequest(batchId) ==
  /\ fbPc \in {"idle", "returned", "failed"}
  /\ fetchBatch(batchId)
  /\ UNCHANGED <<uiVars, initVars>>

\* ------------------------------------------------- TripDataService.init
\* A message of the chunk protocol: its type, its batch or chunk index (0
\* for init, ready and error) and the trip identifiers it carries.
Msg(type, index, trips) == [type |-> type, index |-> index, trips |-> trips]

\* History: what the main thread posted and received, in order.
Posted(m) == <<"post", m.type, m.index>>
Received(m) == <<"recv", m.type, m.index>>

TdsNew ==
  /\ tdsPc = "new"
  /\ tdsTripMap = {}
  /\ toWorker = <<>>
  /\ toMain = <<>>
  /\ wire = <<>>
  /\ wInit = FALSE
  /\ wBatches = [b \in 0..MaxBatchId |-> Null]

\* worker.postMessage(m)
Post(m) ==
  /\ toWorker' = Append(toWorker, m)
  /\ wire' = Append(wire, Posted(m))

\* init() up to its first await: client.init({windowStartMs, fade}).
init_start ==
  /\ tdsPc = "new"
  /\ tdsPc' = "client.init"
  /\ Post(Msg("init", 0, {}))
  /\ UNCHANGED <<tdsTripMap, toMain, wInit, wBatches, fetchVars>>

\* client.init resolved: await client.loadBatch(0), which asks the service's
\* onBatchRequest callback, fetchBatch, for the rows.
init_afterReady ==
  /\ tdsPc' = "client.loadBatch"
  /\ fetchBatch(0)
  /\ UNCHANGED <<tdsTripMap, toWorker, wInit, wBatches>>

\* The three initial chunks requested at once instead of one by one.
init_afterBatch_atOnce ==
  /\ tdsPc' = "client.requestChunk"
  /\ toWorker' = toWorker \o <<Msg("request-chunk", 0, {}),
                               Msg("request-chunk", 1, {}),
                               Msg("request-chunk", 2, {})>>
  /\ wire' = wire \o <<Received(Head(toMain)),
                       Posted(Msg("request-chunk", 0, {})),
                       Posted(Msg("request-chunk", 1, {})),
                       Posted(Msg("request-chunk", 2, {}))>>
  /\ UNCHANGED <<tdsTripMap, wInit, wBatches, fetchVars>>

\* client.loadBatch(0) resolved: the loop over initialChunks = [0, 1, 2]
\* awaits client.requestChunk(0).
init_afterBatch ==
  /\ tdsPc' = "client.requestChunk"
  /\ toWorker' = Append(toWorker, Msg("request-chunk", 0, {}))
  /\ wire' = wire \o <<Received(Head(toMain)), Posted(Msg("request-chunk", 0, {}))>>
  /\ UNCHANGED <<tdsTripMap, wInit, wBatches, fetchVars>>

\* client.requestChunk(chunkIndex) resolved with trips: they go into tripMap,
\* then the next chunk is requested or the map is returned.
init_afterChunk(chunkIndex, trips) ==
  /\ tdsTripMap' = tdsTripMap \cup trips
  /\ IF chunkIndex < 2
       THEN /\ tdsPc' = "client.requestChunk"
            /\ toWorker' = Append(toWorker, Msg("request-chunk", chunkIndex + 1, {}))
            /\ wire' = wire \o <<Received(Head(toMain)),
                                 Posted(Msg("request-chunk", chunkIndex + 1, {}))>>
       ELSE /\ tdsPc' = "resolved"
            /\ wire' = Append(wire, Received(Head(toMain)))
            /\ UNCHANGED toWorker
  /\ UNCHANGED <<wInit, wBatches, fetchVars>>

\* An init that swallows the failure of an awaited call and returns its map.
init_swallows ==
  /\ tdsPc' = "resolved"
  /\ UNCHANGED <<tdsTripMap, toWorker, wInit, wBatches>>

\* An awaited client call rejected: init has no catch, it rejects with it.
init_rejects ==
  /\ tdsPc' = "rejected"
  /\ UNCHANGED <<tdsTripMap, toWorker, wInit, wBatches>>

\* requestChunk(chunkIndex) and clearBatch(batchId) of the service, called
\* once init has returned: each hands the call to the client, which posts it.
CallsAfterInit ==
  Cardinality({i \in DOMAIN wire :
     wire[i][1] = "call" /\ wire[i][2] \in {"request-chunk", "clear-batch"}})

requestChunk(chunkIndex) ==
  /\ tdsPc \in {"resolved", "chunkRejected"}
  /\ CallsAfterInit < MaxChunkCalls
  /\ tdsPc' = "service.requestChunk"
  /\ toWorker' = Append(toWorker, Msg("request-chunk", chunkIndex, {}))
  /\ wire' = wire \o <<<<"call", "request-chunk", chunkIndex>>,
                        Posted(Msg("request-chunk", chunkIndex, {}))>>
  /\ UNCHANGED <<tdsTripMap, toMain, wInit, wBatches, fetchVars, uiVars>>

clearBatch(batchId) ==
  /\ tdsPc \in {"resolved", "chunkRejected"}
  /\ CallsAfterInit < MaxChunkCalls
  /\ toWorker' = Append(toWorker, Msg("clear-batch", batchId, {}))
  /\ wire' = wire \o <<<<"call", "clear-batch", batchId>>,
                        Posted(Msg("clear-batch", batchId, {}))>>
  /\ UNCHANGED <<tdsPc, tdsTripMap, toMain, wInit, wBatches, fetchVars, uiVars>>

\* The chunk the pending requestChunk call asked for.
PendingChunk ==
  LET calls == {i \in DOMAIN wire : wire[i][1] = "call" /\ wire[i][2] = "request-chunk"}
  IN wire[CHOOSE i \in calls : \A j \in calls : j <= i][3]

\* The pending requestChunk call gets its trips, or is rejected.
requestChunk_settles(outcome) ==
  /\ tdsPc' = outcome
  /\ wire' = Append(wire, Received(Head(toMain)))
  /\ UNCHANGED <<tdsTripMap, toWorker, wInit, wBatches, fetchVars>>

\* request-batch(batchId) received: the client asks onBatchRequest, which is
\* fetchBatch, for the rows of the batch.
client_onRequestBatch(batchId) ==
  /\ fetchBatch(batchId)
  /\ wire' = Append(wire, Received(Head(toMain)))
  /\ UNCHANGED <<tdsPc, tdsTripMap, toWorker, wInit, wBatches>>

\* The batch the worker asked for is loaded: the client asks for the chunk
\* again.
client_afterRequestedBatch ==
  /\ toWorker' = Append(toWorker, Msg("request-chunk", PendingChunk, {}))
  /\ wire' = wire \o <<Received(Head(toMain)),
                        Posted(Msg("request-chunk", PendingChunk, {}))>>
  /\ UNCHANGED <<tdsPc, tdsTripMap, wInit, wBatches, fetchVars>>

\* The main thread takes the worker's next message; the client settles the
\* call that waits for it and init goes on.
MainReceive ==
  LET m == Head(toMain) IN
  /\ toMain # <<>>
  /\ toMain' = Tail(toMain)
  /\ CASE m.type = "ready" /\ tdsPc = "client.init" ->
            init_afterReady /\ wire' = Append(wire, Received(m))
       [] m.type = "batch-processed" /\ tdsPc = "client.loadBatch" ->
            init_afterBatch
       [] m.type = "chunk-response" /\ tdsPc = "client.requestChunk" ->
            init_afterChunk(m.index, m.trips)
       [] m.type = "error" /\ tdsPc \in {"client.init", "client.loadBatch",
                                         "client.requestChunk"} ->
            init_rejects /\ wire' = Append(wire, Received(m)) /\ UNCHANGED fetchVars
       [] m.type = "chunk-response" /\ tdsPc = "service.requestChunk" ->
            requestChunk_settles("resolved")
       [] m.type = "error" /\ tdsPc = "service.requestChunk" ->
            requestChunk_settles("chunkRejected")
       [] m.type = "request-batch" /\ tdsPc = "service.requestChunk" ->
            client_onRequestBatch(m.index)
       [] m.type = "batch-processed" /\ tdsPc = "service.requestChunk" ->
            client_afterRequestedBatch
       [] OTHER ->
            /\ wire' = Append(wire, Received(m))
            /\ UNCHANGED <<tdsPc, tdsTripMap, toWorker, wInit, wBatches, fetchVars>>
  /\ UNCHANGED uiVars

\* A worker that answers a chunk of a batch it does not hold with an empty
\* chunk-response.
ChunkAnswer_empty(chunkIndex) ==
  LET batchId == chunkIndex \div CHUNKS_PER_BATCH IN
  IF batchId \in DOMAIN wBatches /\ wBatches[batchId] # Null
    THEN Msg("chunk-response", chunkIndex, wBatches[batchId][1])
    ELSE Msg("chunk-response", chunkIndex, {})

\* The worker's answer to request-chunk(chunkIndex): the trips of the chunk
\* when it holds the chunk's batch, otherwise a request for that batch.
ChunkAnswer(chunkIndex) ==
  LET batchId == chunkIndex \div CHUNKS_PER_BATCH IN
  IF batchId \in DOMAIN wBatches /\ wBatches[batchId] # Null
    THEN Msg("chunk-response", chunkIndex, wBatches[batchId][1])
    ELSE Msg("request-batch", batchId, {})

\* The worker fails on the next request of its queue and reports it.
WorkerFails ==
  /\ toWorker # <<>>
  /\ toWorker' = Tail(toWorker)
  /\ toMain' = Append(toMain, Msg("error", 0, {}))
  /\ UNCHANGED <<tdsPc, tdsTripMap, wire, wInit, wBatches, fetchVars, uiVars>>

\* The worker handles the next message of its queue.
WorkerHandle ==
  LET m == Head(toWorker) IN
  /\ toWorker # <<>>
  /\ toWorker' = Tail(toWorker)
  /\ CASE m.type = "init" ->
            /\ wInit' = TRUE
            /\ toMain' = Append(toMain, Msg("ready", 0, {}))
            /\ UNCHANGED wBatches
       [] m.type # "init" /\ ~wInit ->
            /\ toMain' = Append(toMain, Msg("error", 0, {}))
            /\ UNCHANGED <<wInit, wBatches>>
       [] m.type = "load-batch" /\ wInit ->
            /\ wBatches' = [wBatches EXCEPT ![m.index] = <<m.trips>>]
            /\ toMain' = Append(toMain, Msg("batch-processed", m.index, {}))
            /\ UNCHANGED wInit
       [] m.type = "request-chunk" /\ wInit ->
            /\ toMain' = Append(toMain, ChunkAnswer(m.index))
            /\ UNCHANGED <<wInit, wBatches>>
       [] m.type = "clear-batch" /\ wInit ->
            /\ wBatches' = [wBatches EXCEPT ![m.index] = Null]
            /\ UNCHANGED <<wInit, toMain>>
  /\ UNCHANGED <<tdsPc, tdsTripMap, wire, fetchVars, uiVars>>

\* What the client does when the fetchBatch call of loadBatch settles: post
\* load-batch with the rows, or reject loadBatch.
LoadBatchSettles ==
  /\ IF fbPc' = "returned"
       THEN /\ Post(Msg("load-batch", fbBatchId, Ids(fbResult'[1])))
            /\ UNCHANGED tdsPc
       ELSE IF fbPc' = "failed"
         THEN /\ IF tdsPc = "service.requestChunk"
                   THEN tdsPc' = "chunkRejected" /\ UNCHANGED toWorker
                   ELSE init_rejects
              /\ UNCHANGED wire
         ELSE UNCHANGED <<tdsPc, toWorker, wire>>
  /\ UNCHANGED <<tdsTripMap, toMain, wInit, wBatches, uiVars>>

\* ------------------------------------------------ DuckDBService life cycle
\* A database instance is "new" (worker created), "ready" (instantiated) or
\* "dead" (terminated).  A run of _initialize is at one of its awaits
\* ("selectBundle", "instantiate", "connect"), "resolved" or "rejected"; inst
\* is the instance whose answer it awaits, epoch the number of terminate()
\* calls made before it started.
LifeNew ==
  /\ initPromise = Null
  /\ initRuns = <<>>
  /\ initCalls = <<>>
  /\ db = Null
  /\ conn = Null
  /\ instances = <<>>
  /\ nTerminates = 0

\* The service after one init() has resolved.
LifeReady ==
  /\ initPromise = <<1>>
  /\ initRuns = <<[pc |-> "resolved", inst |-> 1, epoch |-> 0]>>
  /\ initCalls = <<[run |-> 1, epoch |-> 0]>>
  /\ db = <<1>>
  /\ conn = <<1>>
  /\ instances = <<"ready">>
  /\ nTerminates = 0

\* ensureInitialized() returns (it throws otherwise).
ensureInitialized == conn # Null /\ db # Null

\* An init() that starts over when the run it holds has failed.
DuckDBService_init_retries ==
  /\ Len(initCalls) < MaxInitCalls
  /\ IF initPromise # Null /\ initRuns[initPromise[1]].pc # "rejected"
       THEN /\ initCalls' = Append(initCalls,
                 [run |-> initPromise[1], epoch |-> nTerminates])
            /\ UNCHANGED <<initPromise, initRuns>>
       ELSE /\ initRuns' = Append(initRuns,
                 [pc |-> "selectBundle", inst |-> 0, epoch |-> nTerminates])
            /\ initPromise' = <<Len(initRuns) + 1>>
            /\ initCalls' = Append(initCalls,
                 [run |-> Len(initRuns) + 1, epoch |-> nTerminates])
  /\ UNCHANGED <<db, conn, instances, nTerminates>>
  /\ UNCHANGED notLifeVars

\* init(): the promise held, or else a new run of _initialize (up to its
\* first await) whose promise is kept.
DuckDBService_init ==
  /\ Len(initCalls) < MaxInitCalls
  /\ IF initPromise # Null
       THEN /\ initCalls' = Append(initCalls,
                 [run |-> initPromise[1], epoch |-> nTerminates])
            /\ UNCHANGED <<initPromise, initRuns>>
       ELSE /\ initRuns' = Append(initRuns,
                 [pc |-> "selectBundle", inst |-> 0, epoch |-> nTerminates])
            /\ initPromise' = <<Len(initRuns) + 1>>
            /\ initCalls' = Append(initCalls,
                 [run |-> Len(initRuns) + 1, epoch |-> nTerminates])
  /\ UNCHANGED <<db, conn, instances, nTerminates>>
  /\ UNCHANGED notLifeVars

\* _initialize after selectBundle: this.db = new AsyncDuckDB(..., worker),
\* then db.instantiate is awaited.
initialize_afterSelectBundle(r) ==
  /\ initRuns[r].pc = "selectBundle"
  /\ instances' = Append(instances, "new")
  /\ db' = <<Len(instances) + 1>>
  /\ initRuns' = [initRuns EXCEPT ![r].pc = "instantiate",
                                  ![r].inst = Len(instances) + 1]
  /\ UNCHANGED <<initPromise, initCalls, conn, nTerminates>>
  /\ UNCHANGED notLifeVars

\* _initialize after instantiate (which a terminated instance never
\* answers): this.db.connect() is called on what this.db is now, and throws
\* when it is null.
initialize_afterInstantiate(r) ==
  /\ initRuns[r].pc = "instantiate"
  /\ instances[initRuns[r].inst] = "new"
  /\ instances' = [instances EXCEPT ![initRuns[r].inst] = "ready"]
  /\ initRuns' = IF db = Null
                   THEN [initRuns EXCEPT ![r].pc = "rejected"]
                   ELSE [initRuns EXCEPT ![r].pc = "connect", ![r].inst = db[1]]
  /\ UNCHANGED <<initPromise, initCalls, db, conn, nTerminates>>
  /\ UNCHANGED notLifeVars

\* _initialize after connect, which an instance answers once instantiated:
\* this.conn is set and the run resolves.
initialize_afterConnect(r) ==
  /\ initRuns[r].pc = "connect"
  /\ instances[initRuns[r].inst] = "ready"
  /\ conn' = <<initRuns[r].inst>>
  /\ initRuns' = [initRuns EXCEPT ![r].pc = "resolved"]
  /\ UNCHANGED <<initPromise, initCalls, db, instances, nTerminates>>
  /\ UNCHANGED notLifeVars

\* An await of _initialize rejects: the run rejects, what it has set stays.
initialize_rejects(r) ==
  /\ initRuns[r].pc \in {"selectBundle", "instantiate", "connect"}
  /\ initRuns' = [initRuns EXCEPT ![r].pc = "rejected"]
  /\ UNCHANGED <<initPromise, initCalls, db, conn, instances, nTerminates>>
  /\ UNCHANGED notLifeVars

\* terminate(): conn?.close(), db?.terminate(), and the three fields null.
terminate ==
  /\ nTerminates < MaxTerminates
  /\ instances' = IF db = Null THEN instances
                  ELSE [instances EXCEPT ![db[1]] = "dead"]
  /\ conn' = Null
  /\ db' = Null
  /\ initPromise' = Null
  /\ nTerminates' = nTerminates + 1
  /\ UNCHANGED <<initRuns, initCalls>>
  /\ UNCHANGED notLifeVars

\* The instance inst holds the file or table called name.
Holds(inst, name) == <<inst, name>> \in dbTables

\* ------------------------------------------- DuckDBService.registerDataFile
\* Names as <<name, year, month number>>; the snapshot has no month.
jsonFilename == <<"recurs.json", 0, 0>>
tableName(date) == <<"stations", date[1], date[2] + 1>>
csvFilename(date) == <<"BicingNou_ESTACIONS.csv", date[1], date[2] + 1>>

\* The requested month is strictly before the current real-world month.
isHistorical(date) ==
  \/ date[1] < nowReal[1]
  \/ date[1] = nowReal[1] /\ date[2] < nowReal[2]

DuckInit ==
  /\ registeredFiles = {}
  /\ missingFiles = {}
  /\ lastFetchTime = 0
  /\ currentFetchPromise = Null
  /\ dbTables = {}
  /\ duckNow = 0
  /\ regPc = [c \in 1..MaxCalls |-> "idle"]
  /\ csvFetches = <<>>
  /\ jsonFetches = <<>>

\* The part of the service the real-time path works on, as one value.
JsonState == [pc |-> regPc, promise |-> currentFetchPromise, fetches |-> jsonFetches]

\* this.currentFetchPromise = (async () => { ... await fetch(url) ... })(),
\* then await it: call c owns a new fetch of the snapshot.
StartFetch(js, c) ==
  [pc |-> [js.pc EXCEPT ![c] = "jsonOwn"],
   promise |-> <<Len(js.fetches) + 1>>,
   fetches |-> Append(js.fetches,
                 [file |-> jsonFilename, state |-> "pending", owner |-> c,
                  date |-> Null, waiters |-> <<>>])]

\* "Default to real-time JSON" up to the first await: a recent copy is used,
\* a fetch in progress is waited for, otherwise a fetch is started.
JsonPath(js, c) ==
  IF jsonFilename \in registeredFiles
       /\ duckNow - lastFetchTime < REFETCH_INTERVAL_MS
    THEN [js EXCEPT !.pc[c] = "returnedJson"]
    ELSE IF js.promise # Null
      THEN [js EXCEPT !.pc[c] = "jsonWait",
                      !.fetches[js.promise[1]].waiters = Append(@, c)]
      ELSE StartFetch(js, c)

\* The calls whose wait on a failed fetch ends, in the order they began to
\* wait: each falls through to a fetch of its own.
RECURSIVE FallThrough(_, _)
FallThrough(js, waiters) ==
  IF waiters = <<>> THEN js
  ELSE FallThrough(StartFetch(js, Head(waiters)), Tail(waiters))

SetJsonState(js) ==
  /\ regPc' = js.pc
  /\ currentFetchPromise' = js.promise
  /\ jsonFetches' = js.fetches

\* registerDataFile(date) up to its first await.
registerDataFile(c, date) ==
  /\ regPc[c] = "idle"
  /\ IF ~ensureInitialized
       THEN /\ regPc' = [regPc EXCEPT ![c] = "threw"]
            /\ UNCHANGED <<currentFetchPromise, csvFetches, jsonFetches>>
     ELSE IF isHistorical(date) /\ tableName(date) \in registeredFiles
       THEN /\ regPc' = [regPc EXCEPT ![c] = "returnedCsv"]
            /\ UNCHANGED <<currentFetchPromise, csvFetches, jsonFetches>>
       ELSE IF isHistorical(date) /\ csvFilename(date) \notin missingFiles
         THEN /\ regPc' = [regPc EXCEPT ![c] = "csvFetch"]
              /\ csvFetches' = Append(csvFetches,
                   [file |-> csvFilename(date), state |-> "pending",
                    owner |-> c, date |-> <<date>>, waiters |-> <<>>,
                    db |-> db[1], conn |-> conn[1]])
              /\ UNCHANGED <<currentFetchPromise, jsonFetches>>
         ELSE /\ SetJsonState(JsonPath(JsonState, c))
              /\ UNCHANGED csvFetches
  /\ UNCHANGED <<registeredFiles, missingFiles, lastFetchTime, dbTables, duckNow>>
  /\ UNCHANGED notDuckVars

\* CREATE TABLE ... FROM read_csv_auto(file) succeeds on the db and conn the
\* call took from ensureInitialized(): both of one live instance (the one the
\* file buffer was registered with) that has no table of that name.
CreatesTable(fetch) ==
  /\ fetch.db = fetch.conn
  /\ instances[fetch.conn] # "dead"
  /\ ~Holds(fetch.conn, tableName(fetch.date[1]))

\* The response to fetch(csvUrl) of call c arrives. With the file in hand the
\* table is created, which the database refuses when the table exists;
\* without it, or on an error, the file is marked missing and the call goes
\* on to the real-time snapshot.
CsvLands(f, outcome) ==
  LET c == csvFetches[f].owner
      date == csvFetches[f].date[1]
  IN
  /\ csvFetches[f].state = "pending"
  /\ csvFetches' = [csvFetches EXCEPT ![f].state = "settled"]
  /\ IF outcome = "ok" /\ CreatesTable(csvFetches[f])
       THEN /\ dbTables' = dbTables \cup {<<csvFetches[f].conn, tableName(date)>>}
            /\ registeredFiles' = registeredFiles \cup {tableName(date)}
            /\ regPc' = [regPc EXCEPT ![c] = "returnedCsv"]
            /\ UNCHANGED <<missingFiles, currentFetchPromise, jsonFetches>>
       ELSE /\ missingFiles' = missingFiles \cup {csvFilename(date)}
            /\ SetJsonState(JsonPath(JsonState, c))
            /\ UNCHANGED <<dbTables, registeredFiles>>
  /\ UNCHANGED <<lastFetchTime, duckNow>>
  /\ UNCHANGED notDuckVars

\* The response to the snapshot fetch f arrives: the file is registered with
\* what this.db is now, or the fetch (or ensureInitialized) throws; either way currentFetchPromise is cleared, and the owner
\* and the calls waiting for the promise go on.
JsonLands(f, ok) ==
  LET owner == jsonFetches[f].owner
      waiters == jsonFetches[f].waiters
      settled == [pc |-> regPc, promise |-> Null,
                  fetches |-> [jsonFetches EXCEPT ![f].state = "settled"]]
      Waiting(c) == \E i \in DOMAIN waiters : waiters[i] = c
  IN
  /\ jsonFetches[f].state = "pending"
  /\ IF ok /\ ensureInitialized
       THEN /\ registeredFiles' = registeredFiles \cup {jsonFilename}
            /\ dbTables' = dbTables \cup {<<db[1], jsonFilename>>}
            /\ lastFetchTime' = duckNow
            /\ SetJsonState([settled EXCEPT !.pc =
                 [c \in DOMAIN regPc |->
                    IF c = owner \/ Waiting(c) THEN "returnedJson" ELSE regPc[c]]])
       ELSE /\ SetJsonState(FallThrough(
                 [settled EXCEPT !.pc[owner] =
                    IF jsonFilename \in registeredFiles
                      THEN "returnedJson" ELSE "threw"],
                 waiters))
            /\ UNCHANGED <<registeredFiles, dbTables, lastFetchTime>>
  /\ UNCHANGED <<missingFiles, duckNow, csvFetches>>
  /\ UNCHANGED notDuckVars

\* Real time passes.
DuckClock(step) ==
  /\ duckNow + step <= MaxDuckNow
  /\ duckNow' = duckNow + step
  /\ UNCHANGED <<registeredFiles, missingFiles, lastFetchTime,
                 currentFetchPromise, dbTables, regPc, csvFetches, jsonFetches>>
  /\ UNCHANGED notDuckVars

\* ---------------------------------- the compiler and the frame interpolator
\* A compiled trip is a DeckTrip (lib/trip-types.ts).  Positions lie on a
\* line and are whole numbers, times are whole seconds from the window start,
\* sequences are indexed from 1 (segment i joins point i to point i + 1).
RECURSIVE cumulativeDistances(_)
cumulativeDistances(path) ==
  IF Len(path) = 1 THEN <<0>>
  ELSE LET n == Len(path)
           before == cumulativeDistances(SubSeq(path, 1, n - 1))
       IN Append(before, before[n - 1] + Abs(path[n] - path[n - 1]))

\* Bearing of the step from a to b: east 90, west 270; a step of no length
\* keeps the bearing before it.
segmentBearing(a, b, prior) ==
  IF b > a THEN 90 ELSE IF b < a THEN 270 ELSE prior

RECURSIVE segmentBearings(_)
segmentBearings(path) ==
  IF Len(path) = 2 THEN <<segmentBearing(path[1], path[2], 90)>>
  ELSE LET n == Len(path)
           before == segmentBearings(SubSeq(path, 1, n - 1))
       IN Append(before, segmentBearing(path[n - 1], path[n], before[n - 2]))

\* Time of each path point: the trip's duration spread in proportion to the
\* distance covered; a route of no length puts every point at the start.
timestampsOf(cum, startTimeSeconds, endTimeSeconds) ==
  LET total == cum[Len(cum)]
  IN [i \in 1..Len(cum) |->
        IF total = 0 THEN startTimeSeconds
        ELSE startTimeSeconds
               + ((endTimeSeconds - startTimeSeconds) * cum[i]) \div total]

compiledTrip(rawTrip, batchWindowStart, fadeDurationSeconds, fadeInEnd) ==
  LET startTimeSeconds == rawTrip.startedAt - batchWindowStart
      endTimeSeconds == rawTrip.endedAt - batchWindowStart
      cum == cumulativeDistances(rawTrip.path)
      bearings == segmentBearings(rawTrip.path)
  IN [ path |-> rawTrip.path,
       timestamps |-> timestampsOf(cum, startTimeSeconds, endTimeSeconds),
       bearings |-> bearings,
       startTimeSeconds |-> startTimeSeconds,
       endTimeSeconds |-> endTimeSeconds,
       visibleStartSeconds |-> startTimeSeconds - fadeDurationSeconds,
       visibleEndSeconds |-> endTimeSeconds + fadeDurationSeconds,
       fadeInEndSeconds |-> fadeInEnd,
       firstSegmentBearing |-> bearings[1],
       lastSegmentBearing |-> bearings[Len(bearings)],
       lastSegmentIndex |-> 1,
       currentPosition |-> rawTrip.path[1],
       currentBearing |-> bearings[1],
       currentPhase |-> "fading-in",
       currentPhaseProgress |-> 0,
       isVisible |-> FALSE ]

\* A compiler that ends the fade-in one fade after the start.
compile_late(rawTrip, batchWindowStart, fadeDurationSeconds) ==
  compiledTrip(rawTrip, batchWindowStart, fadeDurationSeconds,
               rawTrip.startedAt - batchWindowStart + fadeDurationSeconds)

\* compile(rawTrip, batchWindowStart, fadeDurationSeconds): fading-in ends
\* and moving begins at the trip's start.
compile(rawTrip, batchWindowStart, fadeDurationSeconds) ==
  compiledTrip(rawTrip, batchWindowStart, fadeDurationSeconds,
               rawTrip.startedAt - batchWindowStart)

\* The segment search from the cached cursor, one segment at a time.
RECURSIVE scanForward(_, _, _)
scanForward(timestamps, i, t) ==
  IF i < Len(timestamps) - 1 /\ timestamps[i + 1] <= t
    THEN scanForward(timestamps, i + 1, t)
    ELSE i

\* The full search: the last segment of lo..hi that starts at or before t.
RECURSIVE binarySearch(_, _, _, _)
binarySearch(timestamps, lo, hi, t) ==
  IF lo >= hi THEN lo
  ELSE LET mid == (lo + hi + 1) \div 2
       IN IF timestamps[mid] <= t
            THEN binarySearch(timestamps, mid, hi, t)
            ELSE binarySearch(timestamps, lo, mid - 1, t)

\* A search that trusts the cursor even when t lies before it.
locate_forwardOnly(tr, t) ==
  scanForward(tr.timestamps, tr.lastSegmentIndex, t)

\* The segment bracketing t: from the cursor while t is at or after it, by
\* the full search when t has moved back past it.
locate(tr, t) ==
  IF tr.timestamps[tr.lastSegmentIndex] <= t
    THEN scanForward(tr.timestamps, tr.lastSegmentIndex, t)
    ELSE binarySearch(tr.timestamps, 1, Len(tr.timestamps) - 1, t)

\* Linear interpolation from a to b at num/den of the way; a span of no
\* length is at its end.
lerp(a, b, num, den) ==
  IF den = 0 THEN b ELSE a + ((b - a) * num) \div den

\* Fraction of a window, in hundredths.
fraction(num, den) ==
  IF den = 0 THEN 100 ELSE (num * 100) \div den

\* The phase tests with the two boundaries of the moving phase given away
\* to its neighbours.
phaseOf_shifted(tr, t) ==
  IF t < tr.visibleStartSeconds \/ t > tr.visibleEndSeconds THEN "invisible"
  ELSE IF t <= tr.fadeInEndSeconds THEN "fading-in"
  ELSE IF t < tr.endTimeSeconds THEN "moving"
  ELSE "fading-out"

\* The phase tests, in the order the interpolator makes them.
phaseOf(tr, t) ==
  IF t < tr.visibleStartSeconds \/ t > tr.visibleEndSeconds THEN "invisible"
  ELSE IF t < tr.fadeInEndSeconds THEN "fading-in"
  ELSE IF t <= tr.endTimeSeconds THEN "moving"
  ELSE "fading-out"

moveTo(tr, i, t) ==
  LET ts == tr.timestamps
      last == Len(tr.bearings)
      next == IF i < last THEN i + 1 ELSE last
  IN [tr EXCEPT
        !.isVisible = TRUE,
        !.currentPhase = "moving",
        !.currentPhaseProgress =
           fraction(t - tr.startTimeSeconds,
                    tr.endTimeSeconds - tr.startTimeSeconds),
        !.currentPosition =
           lerp(tr.path[i], tr.path[i + 1], t - ts[i], ts[i + 1] - ts[i]),
        !.currentBearing =
           lerp(tr.bearings[i], tr.bearings[next], t - ts[i], ts[i + 1] - ts[i]),
        !.lastSegmentIndex = i]

\* One call of the interpolator: the trip's mutable fields at time t.
interpolate(tr, t) ==
  LET phase == phaseOf(tr, t)
  IN CASE phase = "invisible" -> [tr EXCEPT !.isVisible = FALSE]
       [] phase = "fading-in" ->
            [tr EXCEPT
               !.isVisible = TRUE,
               !.currentPhase = "fading-in",
               !.currentPhaseProgress =
                  fraction(t - tr.visibleStartSeconds,
                           tr.fadeInEndSeconds - tr.visibleStartSeconds),
               !.currentPosition = tr.path[1],
               !.currentBearing = tr.firstSegmentBearing]
       [] phase = "moving" -> moveTo(tr, locate(tr, t), t)
       [] phase = "fading-out" ->
            [tr EXCEPT
               !.isVisible = TRUE,
               !.currentPhase = "fading-out",
               !.currentPhaseProgress =
                  fraction(t - tr.endTimeSeconds,
                           tr.visibleEndSeconds - tr.endTimeSeconds),
               !.currentPosition = tr.path[Len(tr.path)],
               !.currentBearing = tr.lastSegmentBearing]

\* The render frame at simulated time t.
update(t) ==
  /\ deckTrip # Null
  /\ deckTrip' = interpolate(deckTrip, t)
  /\ simT' = t
  /\ prevT' = simT
  /\ UNCHANGED notInterpVars

\* A trip as the worker hands it over, and as earlier frames may have left
\* it: the cursor on any of its segments.
InterpInit ==
  /\ \E shape \in TripShapes, path \in PathInputs, w \in BatchWindowStarts,
        fadeDurationSeconds \in FadeInputs :
       \E cursor \in 1..(Len(path) - 1) :
         deckTrip = [compile([startedAt |-> w + shape[1],
                          endedAt |-> w + shape[1] + shape[2],
                          path |-> path], w, fadeDurationSeconds)
                     EXCEPT !.lastSegmentIndex = cursor]
  /\ simT = -1 /\ prevT = -1

\* -------------------------------------------------------- library functions
\* A call of a library function: its name, its argument, its result.
Returned(name, a, result) ==
  /\ libFn' = name /\ libArg' = a /\ libOut' = result
  /\ UNCHANGED notPureVars

\* A filter that looks at the end coordinates only.
keepTrip_endOnly(t) ==
  IF t.endLat = Null \/ t.endLng = Null THEN FALSE
  ELSE IF t.startStationName = t.endStationName THEN FALSE
  ELSE TRUE

\* The callback filterTrips passes to Array.filter.
keepTrip(t) ==
  IF \/ t.startLat = Null
     \/ t.startLng = Null
     \/ t.endLat = Null
     \/ t.endLng = Null
    THEN FALSE
  ELSE IF t.startStationName = t.endStationName THEN FALSE
  ELSE TRUE

\* trips.filter(...): the elements the callback keeps, in order.
RECURSIVE filterTrips(_)
filterTrips(trips) ==
  IF trips = <<>> THEN <<>>
  ELSE IF keepTrip(Head(trips))
         THEN <<Head(trips)>> \o filterTrips(Tail(trips))
         ELSE filterTrips(Tail(trips))

RECURSIVE SeqsUpTo(_, _)
SeqsUpTo(S, n) ==
  IF n = 0 THEN {<<>>}
  ELSE LET shorter == SeqsUpTo(S, n - 1)
       IN shorter \cup {Append(s, x) : s \in shorter, x \in S}

TripLists == SeqsUpTo(TripInputs, MaxTrips)

call_filterTrips(trips) == Returned("filterTrips", trips, filterTrips(trips))

\* A JavaScript number that is a quotient of whole numbers, or NaN (0 / 0).
\* The quotients compared here have denominators far below 2^53 / 10, so
\* comparing the doubles is comparing the fractions.
divide(a, b) == [nan |-> a = 0 /\ b = 0, num |-> a, den |-> b]
\* p < tenths / 10; every comparison with NaN is false.
lessThanTenths(p, tenths) == ~p.nan /\ 10 * p.num < tenths * p.den

\* COLORS.occupancy in lib/config.ts, as [r, g, b].
COLORS_occupancy ==
  [empty |-> <<255, 50, 50>>, low |-> <<255, 165, 0>>,
   medium |-> <<255, 255, 0>>, high |-> <<80, 200, 120>>]

\* percentage of a stationsData entry.
percentage(s) ==
  IF s.bikes + s.docks > 0 THEN divide(s.bikes, s.bikes + s.docks)
  ELSE divide(0, 1)

\* getFillColor of the stations layer.
getFillColor(d) ==
  LET p == d.percentage
  IN IF lessThanTenths(p, 1) THEN COLORS_occupancy.empty
     ELSE IF lessThanTenths(p, 5) THEN COLORS_occupancy.low
     ELSE IF lessThanTenths(p, 8) THEN COLORS_occupancy.medium
     ELSE COLORS_occupancy.high

\* focusColor of the selected station; "#FF3232", "#FFA500", "#FFFF00" and
\* "#50C878" as [r, g, b].
focusColor(selectedStationData) ==
  LET p == divide(selectedStationData.bikes,
                  selectedStationData.bikes + selectedStationData.docks)
  IN IF lessThanTenths(p, 1) THEN <<255, 50, 50>>
     ELSE IF lessThanTenths(p, 5) THEN <<255, 165, 0>>
     ELSE IF lessThanTenths(p, 8) THEN <<255, 255, 0>>
     ELSE <<80, 200, 120>>

\* A station shown on the map and selected: its layer colour and its focus
\* colour.
call_stationColors(s) ==
  Returned("stationColors", s,
           <<getFillColor([percentage |-> percentage(s)]), focusColor(s)>>)

\* A formatted number: its digits as a whole number of 10^-decimals, the
\* number of decimals printed, and the suffix.  The empty string is <<>>.
Text(scaled, decimals, suffix) == <<scaled, decimals, suffix>>

\* Math.round of x hundredths: floor(x + 0.5).
MathRound(hundredths) == (hundredths + 50) \div 100

\* (meters / 1000).toFixed(1), in tenths of a kilometre: the nearest tenth;
\* where the decimal value lies exactly between two tenths the double nearest
\* to it lies on one side or the other, and either tenth may be printed.
toFixed1_km(hundredths) ==
  LET down == hundredths \div 10000
      rest == hundredths % 10000
  IN IF rest < 5000 THEN {down}
     ELSE IF rest > 5000 THEN {down + 1}
     ELSE {down, down + 1}

\* formatDistance(meters), meters given in hundredths: the texts it may return.
formatDistance(hundredths) ==
  IF hundredths < 1000 * 100
    THEN {Text(MathRound(hundredths), 0, "m")}
    ELSE {Text(km, 1, "km") : km \in toFixed1_km(hundredths)}

call_formatDistance(meters) ==
  \E text \in formatDistance(meters) : Returned("formatDistance", meters, text)

\* formatSpeedKmh(data): the empty string.
formatSpeedKmh(data) == <<>>

call_formatSpeedKmh(data) ==
  Returned("formatSpeedKmh", data, formatSpeedKmh(data))

\* ------------------------------------------------- processFilesWithWorkers
\* The input files are 1..Len(filePaths). File f parses into tripsOf(f) valid
\* rows and skippedOf(f) skipped ones (distinct powers of two, so that a sum
\* tells which files are in it).
tripsOf(f) == 2 ^ (f - 1)
skippedOf(f) == 2 ^ (f - 1) * 16

\* The state when processFilesWithWorkers returns its promise: the queue is
\* a copy of the input and every worker has been created and is loading.
PoolInit ==
  /\ filePaths \in {[i \in 1..n |-> i] : n \in 0..MaxFiles}
  /\ fileQueue = filePaths
  /\ activeWorkers = 0
  /\ processedFiles = 0
  /\ totalTrips = 0
  /\ totalSkipped = 0
  /\ workers = [w \in 1..WORKER_COUNT |-> [pc |-> "loading", files |-> {}]]
  /\ posts = <<>>
  /\ writeChain = <<>>
  /\ resolveAt = {}
  /\ poolResolved = FALSE

\* The state a run over no files ends in.
PoolIdle ==
  /\ filePaths = <<>>
  /\ fileQueue = <<>>
  /\ activeWorkers = 0
  /\ processedFiles = 0
  /\ totalTrips = 0
  /\ totalSkipped = 0
  /\ workers = [w \in 1..WORKER_COUNT |-> [pc |-> "terminated", files |-> {}]]
  /\ posts = <<>>
  /\ writeChain = <<>>
  /\ resolveAt = {0}
  /\ poolResolved = TRUE

\* worker.postMessage({type: 'process', filePath}): a running worker starts
\* on the file; a worker that has died never reads the message.
postMessage(worker, filePath) ==
  [pc |-> IF worker.pc = "crashed" THEN "crashed" ELSE "busy",
   files |-> worker.files \cup {filePath}]

\* assignWork(worker), called with activeWorkers = active, the workers in
\* state ws and chain the callbacks behind writePromise.
assignWork(worker, active, ws, chain) ==
  IF fileQueue # <<>>
    THEN /\ fileQueue' = Tail(fileQueue)
         /\ activeWorkers' = active + 1
         /\ workers' = [ws EXCEPT ![worker] = postMessage(@, Head(fileQueue))]
         /\ posts' = Append(posts, <<worker, Head(fileQueue)>>)
         /\ resolveAt' = resolveAt
    ELSE /\ fileQueue' = fileQueue
         /\ activeWorkers' = active
         /\ workers' = ws
         /\ posts' = posts
         /\ resolveAt' = IF active = 0 THEN resolveAt \cup {Len(chain)}
                                       ELSE resolveAt

\* worker.onmessage, data.type === 'ready': the worker has loaded.
onmessage_ready(w) ==
  /\ workers[w].pc = "loading"
  /\ assignWork(w, activeWorkers, [workers EXCEPT ![w].pc = "waiting"],
                writeChain)
  /\ UNCHANGED <<filePaths, processedFiles, totalTrips, totalSkipped,
                 writeChain, poolResolved>>
  /\ UNCHANGED notPoolVars

\* worker.onmessage, data.type === 'result': the worker has parsed its file.
onmessage_result(w) ==
  /\ workers[w].pc = "busy"
  /\ LET f == CHOOSE file \in workers[w].files : TRUE
         chain == Append(writeChain, [file |-> f, st |-> "queued"])
     IN /\ processedFiles' = processedFiles + 1
        /\ totalSkipped' = totalSkipped + skippedOf(f)
        /\ totalTrips' = totalTrips + tripsOf(f)
        /\ writeChain' = chain
        /\ assignWork(w, activeWorkers - 1,
                      [workers EXCEPT ![w] = [pc |-> "waiting",
                                              files |-> @.files \ {f}]],
                      chain)
  /\ UNCHANGED <<filePaths, poolResolved>>
  /\ UNCHANGED notPoolVars

\* worker.onerror: the worker failed to load, or threw while parsing its
\* file. A worker that threw may live on (survives) or be dead; one that
\* failed to load is dead.
onerror(w, survives) ==
  /\ workers[w].pc \in {"loading", "busy"}
  /\ survives => workers[w].pc = "busy"
  /\ assignWork(w, activeWorkers - 1,
                [workers EXCEPT ![w] = [pc |-> IF survives THEN "waiting"
                                                           ELSE "crashed",
                                        files |-> {}]],
                writeChain)
  /\ UNCHANGED <<filePaths, processedFiles, totalTrips, totalSkipped,
                 writeChain, poolResolved>>
  /\ UNCHANGED notPoolVars

\* The callbacks of the chain that may run next.
writePromise_anyQueued(chain) ==
  {i \in DOMAIN chain : chain[i].st = "queued"}

\* writePromise = writePromise.then(() => insertTrips(trips)): a callback
\* runs once every callback before it has returned; after one has thrown
\* none of the later ones runs.
writePromise(chain) ==
  {i \in DOMAIN chain :
     /\ chain[i].st = "queued"
     /\ \A j \in 1..(i - 1) : chain[j].st = "done"}

\* insertTrips(trips), a synchronous transaction: it returns, or it throws.
insertTrips(i, ok) ==
  /\ i \in writePromise(writeChain)
  /\ writeChain' = [writeChain EXCEPT ![i].st = IF ok THEN "done" ELSE "failed"]
  /\ UNCHANGED <<filePaths, fileQueue, activeWorkers, processedFiles,
                 totalTrips, totalSkipped, workers, posts, resolveAt,
                 poolResolved>>
  /\ UNCHANGED notPoolVars

\* The callback attached by assignWork runs: workers are terminated and the
\* returned promise resolves.
resolve ==
  /\ ~poolResolved
  /\ \E k \in resolveAt : \A i \in 1..k : writeChain[i].st = "done"
  /\ poolResolved' = TRUE
  /\ workers' = [w \in DOMAIN workers |->
                   [workers[w] EXCEPT !.pc = "terminated"]]
  /\ UNCHANGED <<filePaths, fileQueue, activeWorkers, processedFiles,
                 totalTrips, totalSkipped, posts, writeChain, resolveAt>>
  /\ UNCHANGED notPoolVars

\* ------------------------------------------------------ the caching proxies
CACHE_TTL_MS(route) ==
  IF route = "part_001" THEN 15 * 60 * 1000 ELSE 30 * 1000

\* The modules as loaded: nothing cached, no request received.
ProxyInit ==
  /\ proxyCachedData = [route \in Routes |-> Null]
  /\ proxyLastFetchTime = [route \in Routes |-> 0]
  /\ proxyNow = 0
  /\ gets = <<>>

\* The responses: a body with its X-Proxy-Cache header, or an error status.
NoResponse == [cache |-> "none", body |-> Null, status |-> 0]
Body(cache, data) == [cache |-> cache, body |-> data, status |-> 200]
ErrorStatus(status) == [cache |-> "none", body |-> Null, status |-> status]

\* GET() up to its first await: the answer from the cache, or the request
\* to the upstream. (NEXT_PUBLIC_OPENDATA_URL is set.)
GET(route, elapsed) ==
  /\ Len(gets) < MaxGets
  /\ proxyNow + elapsed <= MaxProxyNow
  /\ proxyNow' = proxyNow + elapsed
  /\ LET arrival == proxyNow'
         hit == /\ proxyCachedData[route] # Null
                /\ arrival - proxyLastFetchTime[route] < CACHE_TTL_MS(route)
     IN gets' = Append(gets,
          [route |-> route, arrived |-> arrival,
           pc |-> IF hit THEN "answered" ELSE "fetching",
           upstream |-> "none", completed |-> -1, rank |-> 0,
           response |-> IF hit THEN Body("HIT", proxyCachedData[route])
                               ELSE NoResponse])
  /\ UNCHANGED <<proxyCachedData, proxyLastFetchTime>>
  /\ UNCHANGED notProxyVars

\* What GET() returns when the upstream failed: part_001 serves what it has
\* cached, part_002 the error.
GET_failed(route, outcome) ==
  IF route = "part_001" /\ proxyCachedData[route] # Null
    THEN Body(IF outcome = "notOk" THEN "STALE" ELSE "STALE_NET_ERR",
              proxyCachedData[route])
    ELSE ErrorStatus(IF outcome = "notOk" THEN 429 ELSE 500)

\* The time a successful fetch is filed under: Date.now() when the body has
\* been read (part_001), the time the request arrived (part_002).
fetchTime(g, dateNow) ==
  IF gets[g].route = "part_001" THEN dateNow ELSE gets[g].arrived

\* GET() from the upstream's answer on. The body of a successful answer is
\* named after the request that fetched it.
GET_afterFetch(g, outcome, elapsed) ==
  LET route == gets[g].route
      answered == {h \in DOMAIN gets : gets[h].rank > 0}
      done == [gets[g] EXCEPT !.pc = "answered", !.upstream = outcome,
                              !.completed = proxyNow + elapsed,
                              !.rank = Cardinality(answered) + 1]
  IN /\ gets[g].pc = "fetching"
     /\ proxyNow + elapsed <= MaxProxyNow
     /\ proxyNow' = proxyNow + elapsed
     /\ IF outcome = "ok"
          THEN /\ proxyCachedData' = [proxyCachedData EXCEPT ![route] = <<g>>]
               /\ proxyLastFetchTime' =
                    [proxyLastFetchTime EXCEPT ![route] = fetchTime(g, proxyNow')]
               /\ gets' = [gets EXCEPT ![g] =
                             [done EXCEPT !.response = Body("MISS", <<g>>)]]
          ELSE /\ gets' = [gets EXCEPT ![g] =
                             [done EXCEPT !.response = GET_failed(route, outcome)]]
               /\ UNCHANGED <<proxyCachedData, proxyLastFetchTime>>
     /\ UNCHANGED notProxyVars

\* --------------------------------------------------------- the stations store
StationsInit ==
  /\ stations = <<>>
  /\ stationByName = {}
  /\ isLoading = FALSE
  /\ loadCalls = <<>>
  /\ stationFetches = <<>>
  /\ lastLookup = Null

\* load() up to its await: it returns at once when the stations are there
\* or a load is running, and otherwise fetches /stations.json.
load(caller) ==
  /\ Len(loadCalls) < MaxLoads
  /\ IF Len(stations) > 0 \/ isLoading
       THEN /\ loadCalls' = Append(loadCalls, [by |-> caller, pc |-> "resolved"])
            /\ UNCHANGED <<isLoading, stationFetches>>
       ELSE /\ isLoading' = TRUE
            /\ loadCalls' = Append(loadCalls, [by |-> caller, pc |-> "fetching"])
            /\ stationFetches' =
                 Append(stationFetches,
                        [call |-> Len(loadCalls) + 1, state |-> "pending"])
  /\ UNCHANGED <<stations, stationByName, lastLookup>>
  /\ UNCHANGED notStationsVars

\* load() after its await, the fetch having delivered file.
load_afterFetch(f, file) ==
  /\ stationFetches[f].state = "pending"
  /\ stationFetches' = [stationFetches EXCEPT ![f].state = "ok"]
  /\ stations' = file
  /\ stationByName' = {file[i] : i \in DOMAIN file}
  /\ isLoading' = FALSE
  /\ loadCalls' = [loadCalls EXCEPT ![stationFetches[f].call].pc = "resolved"]
  /\ UNCHANGED lastLookup
  /\ UNCHANGED notStationsVars

\* The fetch, or the parsing of its body, throws: load() rejects there.
load_fetchThrows(f) ==
  /\ stationFetches[f].state = "pending"
  /\ stationFetches' = [stationFetches EXCEPT ![f].state = "failed"]
  /\ loadCalls' = [loadCalls EXCEPT ![stationFetches[f].call].pc = "rejected"]
  /\ UNCHANGED <<stations, stationByName, isLoading, lastLookup>>
  /\ UNCHANGED notStationsVars

getStation(name) ==
  /\ lastLookup' = <<name, IF name \in stationByName THEN "found" ELSE "threw">>
  /\ UNCHANGED <<stations, stationByName, isLoading, loadCalls, stationFetches>>
  /\ UNCHANGED notStationsVars

\* ------------------------------------------------------------ specifications
AppInit ==
  /\ StoreInit /\ MapInit /\ LegacyInit /\ DuckInit
  /\ lastOp = <<>>

\* No trip on screen.
InterpIdle == deckTrip = Null /\ simT = -1 /\ prevT = -1

\* No library function called yet.
PureIdle == libFn = "none" /\ libArg = Null /\ libOut = Null

\* No script running.
ToolsIdle == PoolIdle /\ ProxyInit /\ StationsInit

LibInit == InterpIdle /\ PureIdle /\ LifeReady /\ ToolsIdle

UiInit == AppInit /\ LibInit

\* The service as constructed for the default date.
ServiceInit ==
  /\ FetchInit(<<DEFAULT_ANIMATION_START_DATE, DEFAULT_ANIMATION_START_DATE>>)
  /\ TdsNew

Init == UiInit /\ ServiceInit

\* The application: the store in use driven by BikeMap and its controls.
Next ==
  \/ Mount
  \/ \E gap \in FrameGaps : tick(gap)
  \/ togglePlayPause
  \/ \E d \in {-1, 1} : ChangeSpeed(d)
  \/ \E v \in SpeedInputs : SetSpeedup(v)
  \/ \E d \in DateInputs : Seek(d)
  \/ \E d \in DateInputs : SeekAndPlay(d)
  \/ \E t \in SimTimeInputs : SetSimCurrentTimeMs(t)
  \/ ResetPlayback
  \/ ClearPendingAutoPlay
  \/ \E q \in queries : QueryLands(q)
  \/ \E q \in queries : QueryFails(q)

Spec == Init /\ [][Next]_vars

\* The two stores on their own, every action callable in every state.
Called(store, action, arg) == lastOp' = <<store, action, arg>>

StoreCall(action, arg) ==
  /\ Called("stores/animation-store", action, arg)
  /\ UNCHANGED <<mapVars, legacyVars, serviceVars, duckVars>>

LegacyCall(action, arg) ==
  /\ Called("animation-store", action, arg)
  /\ UNCHANGED <<mapVars, storeVars, serviceVars, duckVars>>

NextStores ==
  \/ \E v \in SpeedInputs : setSpeedup(v) /\ StoreCall("setSpeedup", v)
  \/ \E d \in {-1, 1} : changeSpeed(d) /\ StoreCall("changeSpeed", d)
  \/ \E d \in DateInputs :
       /\ dateSelectionKey < MaxSeeks
       /\ setAnimationStartDate(d) /\ StoreCall("setAnimationStartDate", d)
  \/ \E d \in DateInputs :
       /\ dateSelectionKey < MaxSeeks
       /\ setAnimationStartDateAndPlay(d)
       /\ StoreCall("setAnimationStartDateAndPlay", d)
  \/ clearPendingAutoPlay /\ StoreCall("clearPendingAutoPlay", 0)
  \/ play /\ StoreCall("play", 0)
  \/ pause /\ StoreCall("pause", 0)
  \/ \E t \in SimTimeInputs :
       setSimCurrentTimeMs(t) /\ StoreCall("setSimCurrentTimeMs", t)
  \/ \E d \in AdvanceInputs :
       /\ simCurrentTimeMs + d <= MaxSimTimeMs
       /\ advanceSimTime(d) /\ StoreCall("advanceSimTime", d)
  \/ resetPlayback /\ StoreCall("resetPlayback", 0)
  \/ \E v \in SpeedInputs : legacy_setSpeedup(v) /\ LegacyCall("setSpeedup", v)
  \/ \E d \in DateInputs :
       legacy_setAnimationStartDate(d) /\ LegacyCall("setAnimationStartDate", d)
  \/ legacy_play /\ LegacyCall("play", 0)
  \/ legacy_pause /\ LegacyCall("pause", 0)
  \/ \E t \in LegacyTimeInputs :
       legacy_setCurrentTime(t) /\ LegacyCall("setCurrentTime", t)
  \/ \E d \in LegacyAdvanceInputs :
       /\ legacyCurrentTime + d <= MaxLegacyTime
       /\ legacy_advanceTime(d) /\ LegacyCall("advanceTime", d)
  \/ legacy_resetPlayback /\ LegacyCall("resetPlayback", 0)

SpecStores == Init /\ [][NextStores]_vars

\* fetchBatch on its own, called through the onBatchRequest callback.
NextFetch ==
  \/ \E b \in 0..MaxBatchId : OnBatchRequest(b)
  \/ \E data \in WindowAnswers :
       WindowLands(data) /\ UNCHANGED <<uiVars, initVars>>
  \/ WindowFails /\ UNCHANGED <<uiVars, initVars>>
  \/ \E data \in OverlapAnswers :
       OverlapLands(data) /\ UNCHANGED <<uiVars, initVars>>
  \/ OverlapFails /\ UNCHANGED <<uiVars, initVars>>

InitFetch ==
  /\ UiInit
  /\ \E config \in WindowStartInputs \X WindowStartInputs : FetchInit(config)
  /\ TdsNew

SpecFetch == InitFetch /\ [][NextFetch]_vars

\* TripDataService.init() called once on a new service, with the client,
\* the worker and the server answering.
InitInit ==
  /\ UiInit
  /\ \E config \in WindowStartInputs \X WindowStartInputs : FetchInit(config)
  /\ TdsNew

NextInit ==
  \/ init_start /\ UNCHANGED uiVars
  \/ MainReceive
  \/ WorkerHandle
  \/ \E data \in WindowAnswers : WindowLands(data) /\ LoadBatchSettles
  \/ WindowFails /\ LoadBatchSettles
  \/ \E data \in OverlapAnswers : OverlapLands(data) /\ LoadBatchSettles
  \/ OverlapFails /\ LoadBatchSettles
  \/ WorkerFails

SpecInit == InitInit /\ [][NextInit]_vars

\* The service after init has returned, with batch 0 loaded: requestChunk
\* and clearBatch calls, one at a time.  wire holds the history from here on.
InitChunk ==
  /\ UiInit
  /\ \E config \in WindowStartInputs \X WindowStartInputs : FetchInit(config)
  /\ tdsPc = "resolved"
  /\ \E loaded \in LoadedInputs :
       /\ tdsTripMap = loaded
       /\ wBatches = [b \in 0..MaxBatchId |-> IF b = 0 THEN <<loaded>> ELSE Null]
  /\ toWorker = <<>>
  /\ toMain = <<>>
  /\ wire = <<>>
  /\ wInit = TRUE

NextChunk ==
  \/ \E chunkIndex \in ChunkInputs : requestChunk(chunkIndex)
  \/ \E batchId \in 0..MaxBatchId : clearBatch(batchId)
  \/ MainReceive
  \/ WorkerHandle
  \/ \E data \in WindowAnswers : WindowLands(data) /\ LoadBatchSettles
  \/ WindowFails /\ LoadBatchSettles
  \/ \E data \in OverlapAnswers : OverlapLands(data) /\ LoadBatchSettles
  \/ OverlapFails /\ LoadBatchSettles

SpecChunk == InitChunk /\ [][NextChunk]_vars

\* The interpolator called frame after frame on one compiled trip, the
\* simulated time moving forward or back between calls.
InitInterp ==
  AppInit /\ ServiceInit /\ InterpInit /\ PureIdle /\ LifeReady /\ ToolsIdle

NextInterp == \E t \in TimeInputs : update(t)

SpecInterp == InitInterp /\ [][NextInterp]_vars

\* The library functions, each called on each of its inputs.
NextPure ==
  \/ \E trips \in TripLists : call_filterTrips(trips)
  \/ \E b \in 0..MaxBikes, d \in 0..MaxBikes :
       call_stationColors([bikes |-> b, docks |-> d])
  \/ \E meters \in DistanceInputs : call_formatDistance(meters)
  \/ \E ride \in RideInputs :
       call_formatSpeedKmh([distanceMeters |-> ride[1], seconds |-> ride[2]])

SpecPure == Init /\ [][NextPure]_vars

\* The DuckDB service, initialized, serving overlapping registerDataFile calls.
NextDuck ==
  \/ \E c \in 1..MaxCalls, date \in DuckDateInputs : registerDataFile(c, date)
  \/ \E f \in DOMAIN csvFetches, outcome \in CsvOutcomes : CsvLands(f, outcome)
  \/ \E f \in DOMAIN jsonFetches, ok \in BOOLEAN : JsonLands(f, ok)
  \/ \E step \in ClockSteps : DuckClock(step)

SpecDuck == Init /\ [][NextDuck]_vars

\* The DuckDB service from construction: init() and terminate() called at
\* any time, _initialize running, and registerDataFile calls in between.
InitLife ==
  AppInit /\ ServiceInit /\ InterpIdle /\ PureIdle /\ LifeNew /\ ToolsIdle

NextLife ==
  \/ DuckDBService_init
  \/ \E r \in DOMAIN initRuns : initialize_afterSelectBundle(r)
  \/ \E r \in DOMAIN initRuns : initialize_afterInstantiate(r)
  \/ \E r \in DOMAIN initRuns : initialize_afterConnect(r)
  \/ \E r \in DOMAIN initRuns : initialize_rejects(r)
  \/ terminate
  \/ \E c \in 1..MaxLifeCalls, date \in DuckDateInputs : registerDataFile(c, date)
  \/ \E f \in DOMAIN csvFetches, outcome \in CsvOutcomes : CsvLands(f, outcome)
  \/ \E f \in DOMAIN jsonFetches, ok \in BOOLEAN : JsonLands(f, ok)

SpecLife == InitLife /\ [][NextLife]_vars

\* processFilesWithWorkers from the moment it returns its promise.
InitPool ==
  /\ AppInit /\ ServiceInit /\ InterpIdle /\ PureIdle /\ LifeReady
  /\ PoolInit /\ ProxyInit /\ StationsInit

NextPool ==
  \/ \E w \in 1..WORKER_COUNT : onmessage_ready(w)
  \/ \E w \in 1..WORKER_COUNT : onmessage_result(w)
  \/ \E w \in 1..WORKER_COUNT, survives \in BOOLEAN : onerror(w, survives)
  \/ \E i \in DOMAIN writeChain, ok \in BOOLEAN : insertTrips(i, ok)
  \/ resolve

SpecPool == InitPool /\ [][NextPool]_vars

\* The same, with the scheduling the runtime gives: a worker that has loaded
\* says so, a running worker answers its message, a callback of the chain
\* that may run does, and so does the resolving one.
SpecPoolFair ==
  /\ InitPool /\ [][NextPool]_vars
  /\ \A w \in 1..WORKER_COUNT : WF_vars(onmessage_ready(w))
  /\ \A w \in 1..WORKER_COUNT : WF_vars(onmessage_result(w))
  /\ WF_vars(\E i \in DOMAIN writeChain, ok \in BOOLEAN : insertTrips(i, ok))
  /\ WF_vars(resolve)

\* The two proxy routes: requests and the upstream's answers, each some
\* time after the event before.
NextProxy ==
  \/ \E route \in Routes, elapsed \in ProxyElapsed : GET(route, elapsed)
  \/ \E g \in DOMAIN gets, outcome \in UpstreamOutcomes, elapsed \in ProxyElapsed :
       GET_afterFetch(g, outcome, elapsed)

SpecProxy == Init /\ [][NextProxy]_vars

\* The stations store: load() called at any time, its fetch landing, and
\* lookups in between.
NextStations ==
  \/ \E caller \in LoadCallers : load(caller)
  \/ \E f \in DOMAIN stationFetches, file \in StationFiles : load_afterFetch(f, file)
  \/ \E f \in DOMAIN stationFetches : load_fetchThrows(f)
  \/ \E name \in StationNames : getStation(name)

SpecStations == Init /\ [][NextStations]_vars

\* ------------------------------------------------------------------ claims
\* A step that is an animation frame: only tick moves the frame clock.
IsFrame == now' # now

\* A step that is a date selection: after the first commit, only a date
\* selection re-runs the initial load effect.
IsDateSelection == mounted /\ \E q \in queries' \ queries : q.src = "init"

\* C1: every animation frame after the first frame of a run advances
\* simulated time by exactly min(realDeltaMs, REAL_MAX_FRAME_DELTA_MS) * speedup,
\* realDeltaMs being the time since the previous frame; so no frame adds more
\* than REAL_MAX_FRAME_DELTA_MS * speedup.
C1_FrameAdvance ==
  [][(IsFrame /\ lastTimestampRef # Null) =>
       /\ simCurrentTimeMs' = simCurrentTimeMs
            + Min(now' - lastTimestampRef[1], REAL_MAX_FRAME_DELTA_MS) * speedup
       /\ simCurrentTimeMs' - simCurrentTimeMs <= REAL_MAX_FRAME_DELTA_MS * speedup
    ]_vars

\* C1 witness: a second frame 150 ms after the first one has been capped to
\* 100 ms at the default speed.
C1_Witness ==
  /\ isPlaying /\ speedup = DEFAULT_SPEEDUP
  /\ now = 200 /\ lastTimestampRef = <<200>>
  /\ simCurrentTimeMs = REAL_MAX_FRAME_DELTA_MS * DEFAULT_SPEEDUP

\* C6: the result of a load started before a date selection and landing after
\* it is discarded: when a load of an older generation settles, the displayed
\* station statuses, the loading flag and the error state do not change.
C6_StaleResultDiscarded ==
  [][\A q \in queries :
       (q.gen < dateSelectionKey /\ q \notin queries') =>
         UNCHANGED <<stationStatuses, isLoadingTrips, loadError>>
    ]_vars

\* C9: dateSelectionKey increases by exactly 1 on every date selection and no
\* other step changes it; two loads started by different date selections never
\* carry the same generation.
C9_GenerationMonotonic ==
  /\ [][IF IsDateSelection
          THEN dateSelectionKey' = dateSelectionKey + 1
          ELSE dateSelectionKey' = dateSelectionKey]_vars
  /\ [](\A q1, q2 \in queries :
          (q1.src = "init" /\ q2.src = "init" /\ q1.seq # q2.seq)
            => q1.gen # q2.gen)

\* C9 witness: two date selections have been made and both loads, with the
\* first commit's, are still in flight.
C9_Witness ==
  /\ dateSelectionKey = 2
  /\ Cardinality({q \in queries : q.src = "init"}) = 3

\* The store and action of the call that made the current state.
LastCall(store, actions) ==
  /\ lastOp # <<>>
  /\ lastOp[1] = store
  /\ lastOp[2] \in actions

InUse == "stores/animation-store"
Earlier == "animation-store"

\* C7: after a date selection to d, from any state, animationStartDate = d,
\* simulated time is 0 and playback is stopped; playback starts again only by
\* play().
C7_SeekResets ==
  /\ [](LastCall(InUse, {"setAnimationStartDate", "setAnimationStartDateAndPlay"})
          => /\ animationStartDate = lastOp[3]
             /\ simCurrentTimeMs = 0
             /\ ~isPlaying)
  /\ [](LastCall(Earlier, {"setAnimationStartDate"})
          => /\ legacyAnimationStartDate = lastOp[3]
             /\ legacyCurrentTime = 0
             /\ ~legacyIsPlaying)
  /\ [][(~isPlaying /\ isPlaying') => lastOp' = <<InUse, "play", 0>>]_vars
  /\ [][(~legacyIsPlaying /\ legacyIsPlaying')
          => lastOp' = <<Earlier, "play", 0>>]_vars

\* C7 witness: a second date selection, to another day, has just been made.
C7_Witness ==
  /\ lastOp = <<InUse, "setAnimationStartDate", 86400000>>
  /\ dateSelectionKey = 2
  /\ animationStartDate = 86400000

Issued(query) == {i \in DOMAIN fbQueries : fbQueries[i].query = query}

\* C2: fetchBatch(0) returns every identifier at most once, and exactly the
\* identifiers of the in-window rows and of the in-progress rows; so its
\* length is the two counts less the identifiers they share (5 + 3 - 1 = 7).
C2_BatchZeroUnion ==
  (fbPc = "returned" /\ fbBatchId = 0) =>
    LET result == fbResult[1] IN
    /\ \A i, j \in DOMAIN result : result[i].id = result[j].id => i = j
    /\ Ids(result) = Ids(fbData) \cup Ids(fbOverlap)
    /\ Len(result) = Len(fbData) + Len(fbOverlap)
                       - Cardinality(Ids(fbData) \cap Ids(fbOverlap))

\* C2 witness: 5 in-window rows, 3 in-progress rows, 1 identifier shared, 7
\* trips returned.
C2_Witness ==
  /\ fbPc = "returned" /\ fbBatchId = 0
  /\ Len(fbData) = 5 /\ Len(fbOverlap) = 3
  /\ Cardinality(Ids(fbData) \cap Ids(fbOverlap)) = 1
  /\ Len(fbResult[1]) = 7

\* C3: fetchBatch(batchId) queries exactly the window
\* [windowStart + batchId * batchDuration, windowStart + (batchId + 1) *
\* batchDuration); consecutive windows are contiguous and windows of different
\* batches do not overlap.
C3_BatchWindow ==
  LET duration == BATCH_SIZE_SECONDS * 1000 IN
  /\ \A i \in Issued("window") :
       /\ fbQueries[i].from = windowStartMs + fbBatchId * duration
       /\ fbQueries[i].to = windowStartMs + (fbBatchId + 1) * duration
  /\ fbPc # "idle" => Issued("window") = {1}
  /\ \A k \in 0..MaxBatchId : batchEndMs(k) = batchStartMs(k + 1)
  /\ \A j, k \in 0..MaxBatchId :
       j < k => batchEndMs(j) <= batchStartMs(k)

\* C3 witness: the window query of a batch other than 0, with a window start
\* other than 0, has been issued.
C3_Witness ==
  /\ fbPc = "window" /\ fbBatchId = 2 /\ windowStartMs = 1000
  /\ fbQueries[1].from = 7201000 /\ fbQueries[1].to = 10801000

\* C4: a batch fetch is all-or-nothing and not retried: when one of its
\* queries fails the call fails and delivers no trips, a call that returns
\* had no failed query, and each query is issued at most once per call.
C4_AllOrNothing ==
  /\ (\E i \in DOMAIN fbQueries : fbQueries[i].outcome = "error")
       => (fbPc = "failed" /\ fbResult = Null)
  /\ fbPc = "returned" => fbResult # Null
  /\ Cardinality(Issued("window")) <= 1
  /\ Cardinality(Issued("overlap")) <= 1
  /\ Len(fbQueries) <= 2

\* C4 witness: batch 0 failed in its in-progress query after the in-window
\* query had returned rows.
C4_Witness ==
  /\ fbPc = "failed" /\ fbBatchId = 0
  /\ Len(fbData) = 5
  /\ Len(fbQueries) = 2 /\ fbQueries[2].outcome = "error"
  /\ fbResult = Null

\* The positions of the history where the main thread posted a request of
\* one type, or received a response of one type, for one index.
PostsOf(type) == {i \in DOMAIN wire : wire[i][1] = "post" /\ wire[i][2] = type}
Before(i, event) == \E j \in 1..(i - 1) : wire[j] = event

\* C10: in init, the init request has completed (ready received) before
\* load-batch(0) is issued, load-batch(0) has completed (batch-processed
\* received) before the first request-chunk is issued, chunks 0, 1, 2 are
\* requested in that order, each after the response to the one before, and no
\* load-batch, request-chunk or clear-batch is issued before ready.
C10_InitPrecedes ==
  /\ wire # <<>> => wire[1] = <<"post", "init", 0>>
  /\ \A i \in PostsOf("load-batch") \cup PostsOf("request-chunk")
                \cup PostsOf("clear-batch") :
       Before(i, <<"recv", "ready", 0>>)
  /\ \A i \in PostsOf("load-batch") : wire[i][3] = 0
  /\ \A i \in PostsOf("request-chunk") :
       /\ Before(i, <<"recv", "batch-processed", 0>>)
       /\ wire[i][3] \in 0..2
       /\ wire[i][3] > 0 =>
            /\ Before(i, <<"post", "request-chunk", wire[i][3] - 1>>)
            /\ Before(i, <<"recv", "chunk-response", wire[i][3] - 1>>)
  /\ \A i, j \in PostsOf("request-chunk") : i < j => wire[i][3] < wire[j][3]
  /\ tdsPc = "resolved" =>
       /\ Cardinality(PostsOf("init")) = 1
       /\ Cardinality(PostsOf("load-batch")) = 1
       /\ Cardinality(PostsOf("request-chunk")) = 3

\* C10 witness: init resolved with trips after the five requests and their
\* five responses.
C10_Witness ==
  /\ tdsPc = "resolved"
  /\ Len(wire) = 10
  /\ wire[10] = <<"recv", "chunk-response", 2>>
  /\ Cardinality(tdsTripMap) = 7

\* The fetches of one file that are in flight.
InFlight(fetches, file) ==
  {f \in DOMAIN fetches : fetches[f].file = file /\ fetches[f].state = "pending"}

\* C5: single-flight: overlapping registerDataFile calls that need the same
\* file share one network fetch of it, so no file ever has two fetches in
\* flight at once, neither the real-time snapshot nor a month's CSV.
C5_SingleFlight ==
  /\ Cardinality(InFlight(jsonFetches, jsonFilename)) <= 1
  /\ \A date \in DuckDateInputs :
       Cardinality(InFlight(csvFetches, csvFilename(date))) <= 1

\* The requests of one type posted in a history.
PostsIn(log, type) == {i \in DOMAIN log : log[i][1] = "post" /\ log[i][2] = type}

\* A step in which the fetch of the batch fails, or the main thread receives
\* an error response.
FailureStep ==
  \/ fbPc # "failed" /\ fbPc' = "failed"
  \/ /\ Len(wire') = Len(wire) + 1
     /\ wire'[Len(wire')] = <<"recv", "error", 0>>

\* C11: a failure while initialising or loading batch 0 makes init reject in
\* that very step, with nothing posted; a rejected init has returned no trip
\* map, every request and every query was issued at most once (no retry),
\* and when batch 0 was not loaded no chunk was requested and no trip kept.
C11_InitFailureSurfaced ==
  [][
    /\ FailureStep =>
         /\ tdsPc' = "rejected"
         /\ PostsIn(wire', "init") = PostsIn(wire, "init")
         /\ PostsIn(wire', "load-batch") = PostsIn(wire, "load-batch")
         /\ PostsIn(wire', "request-chunk") = PostsIn(wire, "request-chunk")
    /\ tdsPc' = "rejected" =>
         /\ Cardinality(PostsIn(wire', "init")) = 1
         /\ Cardinality(PostsIn(wire', "load-batch")) <= 1
         /\ Cardinality({i \in DOMAIN fbQueries' : fbQueries'[i].query = "window"}) <= 1
         /\ Cardinality({i \in DOMAIN fbQueries' : fbQueries'[i].query = "overlap"}) <= 1
         /\ (~\E i \in DOMAIN wire' : wire'[i] = <<"recv", "batch-processed", 0>>)
              => /\ PostsIn(wire', "request-chunk") = {}
                 /\ tdsTripMap' = {}
  ]_vars

\* C11 witness: init rejected because the in-progress query of batch 0
\* failed after the in-window query had answered.
C11_Witness ==
  /\ tdsPc = "rejected"
  /\ fbPc = "failed" /\ Len(fbQueries) = 2 /\ Len(fbData) = 5
  /\ wire = <<<<"post", "init", 0>>, <<"recv", "ready", 0>>>>
  /\ tdsTripMap = {}

\* C12: when the worker takes a request-chunk whose batch it does not hold,
\* its answer, given in that same step, is request-batch for exactly that
\* batch (chunkIndex \div chunksPerBatch): never nothing, never a
\* chunk-response.
C12_UnloadedChunkRequestsBatch ==
  [][
    (/\ toWorker # <<>>
     /\ toWorker' = Tail(toWorker)
     /\ wInit
     /\ Head(toWorker).type = "request-chunk"
     /\ wBatches[Head(toWorker).index \div CHUNKS_PER_BATCH] = Null)
    => toMain' = Append(toMain,
         Msg("request-batch", Head(toWorker).index \div CHUNKS_PER_BATCH, {}))
  ]_vars

\* C12 witness: chunk 60 was asked for with batch 1 never loaded, and the
\* worker's request-batch(1) is on its way to the main thread.
C12_Witness ==
  /\ wire = <<<<"call", "request-chunk", 60>>, <<"post", "request-chunk", 60>>>>
  /\ toMain = <<Msg("request-batch", 1, {})>>
  /\ wBatches[1] = Null


\* The four cases of the claim, as conditions on t.
Invisible(tr, t) == t < tr.visibleStartSeconds \/ t > tr.visibleEndSeconds
FadingIn(tr, t) == tr.visibleStartSeconds <= t /\ t < tr.fadeInEndSeconds
Moving(tr, t) == tr.fadeInEndSeconds <= t /\ t <= tr.endTimeSeconds
FadingOut(tr, t) == tr.endTimeSeconds < t /\ t <= tr.visibleEndSeconds

Scenario(tr) ==
  /\ tr.startTimeSeconds = 100 /\ tr.endTimeSeconds = 160
  /\ tr.visibleStartSeconds = 95 /\ tr.visibleEndSeconds = 165

ShownAs(tr, phase) == tr.isVisible /\ tr.currentPhase = phase

PhaseMatchesCase ==
  /\ Cardinality({c \in {"invisible", "fading-in", "moving", "fading-out"} :
        \/ c = "invisible" /\ Invisible(deckTrip, simT)
        \/ c = "fading-in" /\ FadingIn(deckTrip, simT)
        \/ c = "moving" /\ Moving(deckTrip, simT)
        \/ c = "fading-out" /\ FadingOut(deckTrip, simT)}) = 1
  /\ Invisible(deckTrip, simT) <=> ~deckTrip.isVisible
  /\ FadingIn(deckTrip, simT) <=> ShownAs(deckTrip, "fading-in")
  /\ Moving(deckTrip, simT) <=> ShownAs(deckTrip, "moving")
  /\ FadingOut(deckTrip, simT) <=> ShownAs(deckTrip, "fading-out")

Outputs(tr) ==
  IF tr.isVisible
    THEN <<TRUE, tr.currentPhase, tr.currentPhaseProgress,
           tr.currentPosition, tr.currentBearing>>
    ELSE <<FALSE>>

\* The trip as compiled, before any frame.
Untouched(tr) ==
  [tr EXCEPT !.lastSegmentIndex = 1, !.isVisible = FALSE,
             !.currentPhase = "fading-in", !.currentPhaseProgress = 0,
             !.currentPosition = tr.path[1],
             !.currentBearing = tr.firstSegmentBearing]

\* The segment that brackets t, whatever the cursor.
Bracket(tr, t) ==
  CHOOSE i \in 1..(Len(tr.timestamps) - 1) :
    /\ tr.timestamps[i] <= t
    /\ i = Len(tr.timestamps) - 1 \/ tr.timestamps[i + 1] > t

C15_PhaseBoundsOrdered ==
  deckTrip # Null =>
    /\ deckTrip.visibleStartSeconds <= deckTrip.fadeInEndSeconds
    /\ deckTrip.fadeInEndSeconds <= deckTrip.endTimeSeconds
    /\ deckTrip.endTimeSeconds <= deckTrip.visibleEndSeconds
    /\ deckTrip.fadeInEndSeconds = deckTrip.startTimeSeconds

\* The trip from 100 to 160 compiled with a fade of 5, before its first frame.
C15_Witness ==
  /\ simT = -1
  /\ deckTrip # Null
  /\ deckTrip.visibleStartSeconds = 95 /\ deckTrip.fadeInEndSeconds = 100
  /\ deckTrip.endTimeSeconds = 160 /\ deckTrip.visibleEndSeconds = 165

\* A trip the map can draw, in the claim's words.
Usable(t) ==
  /\ t.startLat # Null /\ t.startLng # Null
  /\ t.endLat # Null /\ t.endLng # Null
  /\ t.startStationName # t.endStationName

\* The place in the input of the k-th usable trip.
KthUsable(trips, k) ==
  CHOOSE i \in DOMAIN trips :
    /\ Usable(trips[i])
    /\ Cardinality({j \in 1..i : Usable(trips[j])}) = k

\* C16: filterTrips returns a list, never an error: the usable trips of its
\* input, one entry for each, in input order, whatever the other trips are;
\* an input with no usable trip gives the empty list.
C16_FilterKeepsUsable ==
  libFn = "filterTrips" =>
    /\ libOut \in Seq(TripInputs)
    /\ Len(libOut) = Cardinality({i \in DOMAIN libArg : Usable(libArg[i])})
    /\ \A k \in DOMAIN libOut : libOut[k] = libArg[KthUsable(libArg, k)]
    /\ (\A i \in DOMAIN libArg : ~Usable(libArg[i])) => libOut = <<>>

\* Two usable trips around a same-station trip: the two are kept, in order.
C16_Witness ==
  /\ libFn = "filterTrips"
  /\ Len(libArg) = 3
  /\ libArg[1].id = 2 /\ libArg[2].id = 3 /\ libArg[3].id = 1
  /\ Len(libOut) = 2
  /\ libOut[1].id = 2 /\ libOut[2].id = 1

\* The legend's colour for b bikes and d free docks.
LegendColor(b, d) ==
  LET total == b + d
  IN IF total = 0 \/ 10 * b < total THEN <<255, 50, 50>>
     ELSE IF 10 * b < 5 * total THEN <<255, 165, 0>>
     ELSE IF 10 * b < 8 * total THEN <<255, 255, 0>>
     ELSE <<80, 200, 120>>

\* C18: the layer colour and the focus colour of a station with b bikes and
\* d free docks are both the legend's colour for b / (b + d), taken as 0
\* when the station has neither bikes nor docks.
C18_ColorsFollowLegend ==
  libFn = "stationColors" =>
    /\ libOut[1] = LegendColor(libArg.bikes, libArg.docks)
    /\ libOut[2] = LegendColor(libArg.bikes, libArg.docks)

\* C19: formatDistance prints a distance below 1000 metres as the nearest
\* whole number of metres, and that number is below 1000; it prints a
\* distance of 1000 metres or more in kilometres with one decimal, the
\* nearest tenth; 500 gives "500 m", 1000 "1.0 km" and 1500 "1.5 km".
C19_MetresBelowThousand ==
  libFn = "formatDistance" =>
    /\ libArg < 100000 =>
         /\ libOut[2] = 0 /\ libOut[3] = "m"
         /\ 2 * Abs(100 * libOut[1] - libArg) <= 100
    /\ libArg >= 100000 =>
         /\ libOut[2] = 1 /\ libOut[3] = "km"
         /\ 2 * Abs(10000 * libOut[1] - libArg) <= 10000
    /\ libOut[3] = "m" => libOut[1] < 1000
    /\ libArg = 50000 => libOut = Text(500, 0, "m")
    /\ libArg = 100000 => libOut = Text(10, 1, "km")
    /\ libArg = 150000 => libOut = Text(15, 1, "km")

\* C20: formatSpeedKmh returns the ride's average speed in km/h, to the
\* nearest tenth, followed by " km/h"; 15000 m in one hour is "15.0 km/h".
C20_SpeedInKmh ==
  libFn = "formatSpeedKmh" =>
    /\ Len(libOut) = 3
    /\ libOut[2] = 1 /\ libOut[3] = "km/h"
    /\ 2 * Abs(libOut[1] * libArg.seconds - 36 * libArg.distanceMeters)
         <= libArg.seconds
    /\ (libArg.distanceMeters = 15000 /\ libArg.seconds = 3600)
         => libOut = Text(150, 1, "km/h")

\* A step in which the pending load q is rejected.
LoadFailure(q) == q \in queries /\ QueryFails(q)

\* C17: when the initial load is rejected, in that step the loading flag is
\* cleared and an error is recorded; when a periodic status refresh is
\* rejected the statuses shown stay as they were and no error is recorded;
\* and whenever no initial load is pending the loading flag is clear.
C17_FailuresHandled ==
  [][/\ \A q \in queries :
          LoadFailure(q) =>
            IF q.src = "init"
              THEN isLoadingTrips' = FALSE /\ loadError' # Null
              ELSE /\ stationStatuses' = stationStatuses
                   /\ loadError' = loadError
                   /\ isLoadingTrips' = isLoadingTrips
     /\ (\A q \in queries' : q.src # "init") => isLoadingTrips' = FALSE]_vars

\* The first load failed: nothing pending, nothing shown, the flag cleared
\* and the error recorded.
C17_Witness ==
  /\ mounted
  /\ queries = {}
  /\ nIssued = 1
  /\ stationStatuses = Null
  /\ isLoadingTrips = FALSE
  /\ loadError # Null

\* C21: no animation frame runs while playback is paused; while paused, and
\* on the step that resumes, there is no previous frame's timestamp, and a
\* frame without one adds no simulated time; every other frame adds the
\* delta since the previous frame, capped and scaled by the speed.
C21_PausedTimeNotCounted ==
  [][/\ (IsFrame /\ ~isPlaying) => FALSE
     /\ (mounted' /\ ~isPlaying') => lastTimestampRef' = Null
     /\ (mounted /\ ~isPlaying /\ isPlaying') => lastTimestampRef' = Null
     /\ (IsFrame /\ lastTimestampRef = Null)
          => simCurrentTimeMs' = simCurrentTimeMs
     /\ (IsFrame /\ lastTimestampRef # Null)
          => simCurrentTimeMs' - simCurrentTimeMs
               = Min(now' - lastTimestampRef[1], REAL_MAX_FRAME_DELTA_MS)
                   * speedup
    ]_vars

\* Frames at 50 and 100, a pause, a resume and the frame at 150: the 50 ms
\* between the first two frames are all that was counted.
C21_Witness ==
  /\ isPlaying /\ speedup = DEFAULT_SPEEDUP /\ dateSelectionKey = 0
  /\ now = 150 /\ lastTimestampRef = <<150>>
  /\ simCurrentTimeMs = 50 * DEFAULT_SPEEDUP

\* The statuses shown are those of query q.
Shows(statuses, q) ==
  statuses = <<[date |-> q.date, gen |-> q.gen, seq |-> q.seq]>>

\* C22: a query's result is applied to the displayed statuses only when the
\* statuses displayed come from a query issued before it, so the display
\* never goes back from a later query's result to an earlier query's.
C22_AppliedInIssueOrder ==
  [][\A q \in queries :
       (q \notin queries' /\ Shows(stationStatuses', q)
          /\ stationStatuses # Null)
         => stationStatuses[1].seq < q.seq
    ]_vars

\* C23: between two terminate() calls _initialize runs at most once: no two
\* runs started after the same number of terminate() calls, every init()
\* call was given the run of its own period, so all calls of a period share
\* one run and its outcome, a failed run included.
C23_InitOncePerLifetime ==
  /\ \A r1, r2 \in DOMAIN initRuns :
       initRuns[r1].epoch = initRuns[r2].epoch => r1 = r2
  /\ \A i \in DOMAIN initCalls :
       initRuns[initCalls[i].run].epoch = initCalls[i].epoch
  /\ \A i, j \in DOMAIN initCalls :
       initCalls[i].epoch = initCalls[j].epoch
         => initCalls[i].run = initCalls[j].run
  /\ initPromise # Null =>
       /\ initPromise[1] \in DOMAIN initRuns
       /\ initRuns[initPromise[1]].epoch = nTerminates

\* Two init() calls shared a run that failed, and after terminate() a third
\* call started the second run.
C23_Witness ==
  /\ Len(initCalls) = 3 /\ nTerminates = 1
  /\ initCalls[1].run = 1 /\ initCalls[2].run = 1 /\ initCalls[3].run = 2
  /\ initRuns[1].pc = "rejected"
  /\ initRuns[2].pc = "resolved"

\* C24: while the service is initialised, every name in registeredFiles is
\* a file or table the instance queried through this.conn holds.
C24_RegisteredFilesExist ==
  ensureInitialized => \A name \in registeredFiles : Holds(conn[1], name)

\* C25: processFilesWithWorkers eventually resolves in every run (no files,
\* fewer files than workers, a worker raising an error, an insert failing),
\* and at the step it resolves no worker is still working on a file and no
\* queued insertTrips is still to run.
C25_ResolvesOnceAllIsDone ==
  /\ <>poolResolved
  /\ [][(~poolResolved /\ poolResolved')
          => /\ \A w \in DOMAIN workers : workers[w].pc # "busy"
             /\ \A i \in DOMAIN writeChain : writeChain[i].st # "queued"]_vars

\* The postMessage calls that handed out file f, and the number of files
\* posted to workers and not answered.
HandOuts(f) == {i \in DOMAIN posts : posts[i][2] = f}
RECURSIVE Unanswered(_)
Unanswered(w) ==
  IF w = 0 THEN 0 ELSE Cardinality(workers[w].files) + Unanswered(w - 1)
AllTrips == 2 ^ Len(filePaths) - 1

\* C26: every input file is posted to one worker, once; a worker holds at
\* most one file; activeWorkers is the number of files posted and not
\* answered, within 0..WORKER_COUNT; and once the promise has resolved every
\* file has been posted and its rows are in totalTrips and totalSkipped.
C26_EveryFileCountedOnce ==
  /\ \A f \in DOMAIN filePaths : Cardinality(HandOuts(f)) <= 1
  /\ \A w \in DOMAIN workers : Cardinality(workers[w].files) <= 1
  /\ activeWorkers = Unanswered(WORKER_COUNT)
  /\ activeWorkers \in 0..WORKER_COUNT
  /\ poolResolved
       => /\ \A f \in DOMAIN filePaths : Cardinality(HandOuts(f)) = 1
          /\ totalTrips = AllTrips
          /\ totalSkipped = AllTrips * 16

\* C27: an insertTrips call runs only when the insert of every result
\* received before it has finished, one call at a time, so the inserts run
\* in the order the results arrived, whichever worker sent them.
C27_InsertsInArrivalOrder ==
  [][\A i \in DOMAIN writeChain :
       (writeChain[i].st = "queued" /\ writeChain'[i].st # "queued")
         => /\ \A j \in 1..(i - 1) : writeChain[j].st = "done"
            /\ \A j \in DOMAIN writeChain \ {i} : writeChain'[j] = writeChain[j]
    ]_vars

\* The second file's result arrived first; both inserts have run.
C27_Witness ==
  /\ Len(writeChain) = 2
  /\ writeChain[1] = [file |-> 2, st |-> "done"]
  /\ writeChain[2] = [file |-> 1, st |-> "done"]
  /\ posts = <<<<1, 1>>, <<2, 2>>>>

\* The requests of a route the upstream answered successfully, and the one
\* of them answered last.
Fetched(route) ==
  {g \in DOMAIN gets : gets[g].route = route /\ gets[g].upstream = "ok"}
LastFetched(route) ==
  CHOOSE g \in Fetched(route) :
    \A h \in Fetched(route) : gets[h].rank <= gets[g].rank

\* C28: a GET whose upstream request failed is answered with the body
\* fetched last if there is one, with an error status otherwise, and leaves
\* the cache as it was; the cached body changes only to the body of a
\* successful upstream answer.
C28_FailureServesLastBody ==
  [][/\ \A g \in DOMAIN gets :
          (gets[g].pc = "fetching" /\ gets'[g].upstream \in {"notOk", "networkError"})
            => /\ IF Fetched(gets[g].route) # {}
                    THEN /\ gets'[g].response.body = <<LastFetched(gets[g].route)>>
                         /\ gets'[g].response.status = 200
                    ELSE /\ gets'[g].response.body = Null
                         /\ gets'[g].response.status >= 400
               /\ proxyCachedData' = proxyCachedData
     /\ \A route \in Routes :
          proxyCachedData'[route] # proxyCachedData[route]
            => \E g \in DOMAIN gets :
                 /\ gets[g].route = route /\ gets[g].pc = "fetching"
                 /\ gets'[g].upstream = "ok"
                 /\ proxyCachedData'[route] = <<g>>
    ]_vars

\* C29: a GET that arrives less than CACHE_TTL_MS after the last successful
\* upstream fetch of its route completed is answered from the cache, with
\* X-Proxy-Cache: HIT, and sends nothing to the upstream.
C29_NoUpstreamWithinTtl ==
  [][\A route \in Routes :
       ( /\ Len(gets') = Len(gets) + 1
         /\ gets'[Len(gets')].route = route
         /\ Fetched(route) # {}
         /\ gets'[Len(gets')].arrived - gets[LastFetched(route)].completed
              < CACHE_TTL_MS(route) )
       => /\ gets'[Len(gets')].pc = "answered"
          /\ gets'[Len(gets')].response = Body("HIT", <<LastFetched(route)>>)
    ]_vars

\* C30: once a load() call has resolved the stations are there (the list
\* and the lookup map are filled and isLoading is false), for every caller,
\* and all the load() calls together fetch /stations.json once.
C30_ResolvedMeansLoaded ==
  /\ \A c \in DOMAIN loadCalls :
       loadCalls[c].pc = "resolved"
         => /\ Len(stations) > 0
            /\ stationByName = {stations[i] : i \in DOMAIN stations}
            /\ ~isLoading
  /\ Len(stationFetches) = IF loadCalls = <<>> THEN 0 ELSE 1
====
